---- MODULE Spec2Model ----
(***************************************************************************)
(* Model of the hexagonal tessellation pipeline of                         *)
(* examples/hexwater_prototype.py: GridRepair (fill_buildup_and_water),    *)
(* Tessellator (map_to_hexagons), SpatialIndex (find_nearest_hex_fast),    *)
(* LineSnapper (snap_rivers_to_hexes), PolygonSnapper                      *)
(* (snap_lakes_to_hexes) and the main block that chains them; and of the    *)
(* market endpoints of src/api/market.py and claim_building_resources of   *)
(* src/api/buildings.py.                                                   *)
(* Lists are 1-based here where the source is 0-based: cell (0,0) of the   *)
(* source is grid[1][1].                                                   *)
(***************************************************************************)
EXTENDS Integers, Sequences, FiniteSets, TLC

VARIABLES
    grid,         \* fill_buildup_and_water: the argument (never written)
    result,       \* fill_buildup_and_water: the working copy, returned at the end
    to_fill,      \* fill_buildup_and_water: set of pending (i, j)
    todo,         \* cells of to_fill the running for-loop has not visited yet
    filled,       \* cells filled in the running pass
    pc,           \* position in fill_buildup_and_water
    run,          \* which call on the same grid this is (1 or 2)
    first_result, \* what the first call returned
    req,          \* map_to_hexagons: the arguments other than grid
    rings,        \* map_to_hexagons: rings
    hex_biomes,   \* map_to_hexagons: the returned dict, hex_id -> label
    tpc,          \* position in map_to_hexagons
    hexagons,     \* snap_rivers_to_hexes, snap_lakes_to_hexes: the tiles, in their
                  \* iteration order
    rivers,       \* snap_rivers_to_hexes: list of features; coords are (lon, lat)
    env,          \* both snappers: lat_min, lat_max, lon_min, lon_max
    water_hexes,  \* snap_rivers_to_hexes: the set returned
    num_points,   \* both snappers: num_points of the running segment or ring edge
    fi,           \* index of the feature the outer for-loop is at
    si,           \* index i of the segment coords[i], coords[i + 1], or of the ring
                  \* edge ring_coords[i], ring_coords[(i + 1) % len(ring_coords)]
    sj,           \* index j of the sample
    prev_hex,     \* both snappers: prev_hex (None is <<>>)
    rpc,          \* position in snap_rivers_to_hexes
    lakes,        \* snap_lakes_to_hexes: list of lakes; coordinates is a list of rings
    candidates,   \* snap_lakes_to_hexes: the keys of candidates, in their order
    lake_hexes,   \* snap_lakes_to_hexes: the set returned
    li,           \* index of the lake the outer for-loop is at
    ri,           \* index of the ring trace_ring runs on (1 is main_ring)
    lpc,          \* position in snap_lakes_to_hexes
    h3_fail,      \* the pairs of cells h3.grid_distance (dist) and
                  \* h3.grid_path_cells (path) raise an exception for
    pt_lonlat,    \* find_nearest_hex_fast: (pt_lon, pt_lat)
    min_dist,     \* find_nearest_hex_fast: min_dist
    nearest_hex,  \* find_nearest_hex_fast: nearest, returned at the end
    ni,           \* index of the item of hex_positions the for-loop is at
    npc,          \* position in find_nearest_hex_fast
    inventory,    \* table inventory_item: (user_id, resource_type) -> quantity
    market_order, \* table market_order: id -> row
    order_seq,    \* the number of ids given to rows of market_order so far
    request,      \* per client: the request being handled and its position
    response,     \* per client: the status code and the detail of the last response
    serial,       \* the clients wait for each response before the next request
    sent,         \* the number of requests sent so far
    start_inventory, \* inventory_item before the first request
    building,     \* the row of table building that is claimed from
    now           \* datetime.now(timezone.utc), in seconds

repairVars == <<grid, result, to_fill, todo, filled, pc, run, first_result>>

tessVars == <<req, rings, hex_biomes, tpc>>

riverVars == <<hexagons, rivers, env, water_hexes, num_points, fi, si, sj, prev_hex, rpc>>

lakeVars == <<lakes, candidates, lake_hexes, li, ri, lpc>>

nearestVars == <<pt_lonlat, min_dist, nearest_hex, ni, npc>>

marketVars ==
    <<inventory, market_order, order_seq, request, response, serial, sent, start_inventory>>

serverVars == <<marketVars, building, now>>

vars == <<repairVars, tessVars, riverVars, lakeVars, h3_fail, nearestVars, serverVars>>

\* what the steps of fill_buildup_and_water leave alone
notRepair == <<tessVars, riverVars, lakeVars, h3_fail, nearestVars, serverVars>>

\* what map_to_hexagons leaves alone
notTess ==
    <<result, to_fill, todo, filled, pc, run, first_result, riverVars, lakeVars, h3_fail,
      nearestVars, serverVars>>

\* what the steps of snap_rivers_to_hexes leave alone
notRiver == <<repairVars, tessVars, lakeVars, h3_fail, nearestVars, serverVars>>

\* what the steps of snap_lakes_to_hexes leave alone
notLake ==
    <<repairVars, tessVars, rivers, water_hexes, fi, rpc, h3_fail, nearestVars, serverVars>>

\* what the steps of a call of find_nearest_hex_fast on its own leave alone
notNearest ==
    <<repairVars, tessVars, lakeVars, h3_fail, rivers, env, water_hexes, num_points,
      fi, si, sj, prev_hex, rpc, serverVars>>

\* what the requests to the server leave alone
notServer == <<repairVars, tessVars, riverVars, lakeVars, h3_fail, nearestVars>>

None == <<>>

(***************************************************************************)
(* Bounds                                                                  *)
(***************************************************************************)
\* Every grid shape h x w with h * w <= MaxCells is enumerated.
MaxCells == 5

\* The same, for the specification with fairness (termination).
LiveMaxCells == 4

(***************************************************************************)
(* GridRepair: fill_buildup_and_water                                      *)
(***************************************************************************)
Labels == {"Built-up", "Permanent water bodies", "Grassland", "Tree cover"}

\* faulty variant of Disallowed: 'Permanent water bodies' forgotten
DisallowedBuiltUpOnly == {"Built-up"}

\* the list ["Built-up", "Permanent water bodies"] of the two label tests
Disallowed == {"Built-up", "Permanent water bodies"}

Height(g) == Len(g)

Width(g) == Len(g[1])

Cells(g) == (1..Height(g)) \X (1..Width(g))

\* faulty variant of ToFillOf: every cell is pending
ToFillAll(g) == Cells(g)

\* the set comprehension building to_fill
ToFillOf(g) == {c \in Cells(g) : g[c[1]][c[2]] \in Disallowed}

\* the list comprehension `neighbors`: the labels (with repetitions) of the
\* in-grid cells of the 3x3 block around c that are not disallowed, given as
\* the set of those cells
NeighborCells(r, c) ==
    {n \in Cells(r) : /\ n[1] \in (c[1] - 1)..(c[1] + 1)
                      /\ n[2] \in (c[2] - 1)..(c[2] + 1)
                      /\ r[n[1]][n[2]] \notin Disallowed}

\* neighbors.count(l)
NeighborCount(r, c, l) == Cardinality({n \in NeighborCells(r, c) : r[n[1]][n[2]] = l})

\* set(neighbors)
NeighborLabels(r, c) == {r[n[1]][n[2]] : n \in NeighborCells(r, c)}

\* faulty variant of MaxByCount: min instead of max
MinByCount(r, c) ==
    {l \in NeighborLabels(r, c) :
        \A m \in NeighborLabels(r, c) : NeighborCount(r, c, l) <= NeighborCount(r, c, m)}

\* max(set(neighbors), key=neighbors.count): max returns the first element of
\* the highest count in the iteration order of the set; the labels are str,
\* whose hash (and so the set's order) changes from one interpreter process to
\* the next, so the result is any one of the labels of the highest count.
MaxByCount(r, c) ==
    {l \in NeighborLabels(r, c) :
        \A m \in NeighborLabels(r, c) : NeighborCount(r, c, l) >= NeighborCount(r, c, m)}

GridsOfShape(h, w) == [1..h -> [1..w -> Labels]]

Shapes(n) == {s \in (1..n) \X (1..n) : s[1] * s[2] <= n}

\* the 4x4 scenario: (0,0) 'Built-up', every other cell 'Grassland'
Scenario4x4 ==
    [i \in 1..4 |-> [j \in 1..4 |-> IF i = 1 /\ j = 1 THEN "Built-up" ELSE "Grassland"]]

InputGrids(n) == UNION {GridsOfShape(s[1], s[2]) : s \in Shapes(n)} \cup {Scenario4x4}

\* no pair of cells the library raises an exception for
NoFail == [dist |-> {}, path |-> {}]

\* float("inf"); a finite min_dist d is <<d>>
Inf == <<>>

\* no request has been sent to the server
ServerIdle ==
    /\ inventory = <<>>
    /\ market_order = <<>>
    /\ order_seq = 0
    /\ request = <<>>
    /\ response = <<>>
    /\ serial = TRUE
    /\ sent = 0
    /\ start_inventory = <<>>
    /\ building = <<>>
    /\ now = 0

\* find_nearest_hex_fast has not been called on its own
NearestIdle ==
    /\ pt_lonlat = <<>>
    /\ min_dist = Inf
    /\ nearest_hex = <<>>
    /\ ni = 0
    /\ npc = "idle"

\* snap_lakes_to_hexes has not been called, and the library calls succeed
LakeIdle ==
    /\ lakes = <<>>
    /\ candidates = <<>>
    /\ lake_hexes = {}
    /\ li = 0
    /\ ri = 0
    /\ lpc = "idle"
    /\ h3_fail = NoFail
    /\ NearestIdle
    /\ ServerIdle

\* snap_rivers_to_hexes has not been called
RiverIdle ==
    /\ hexagons = <<>>
    /\ rivers = <<>>
    /\ env = <<>>
    /\ water_hexes = {}
    /\ num_points = 0
    /\ fi = 0
    /\ si = 0
    /\ sj = 0
    /\ prev_hex = None
    /\ rpc = "idle"

\* map_to_hexagons has not been called
TessIdle ==
    /\ RiverIdle
    /\ LakeIdle
    /\ req = <<>>
    /\ rings = 0
    /\ hex_biomes = <<>>
    /\ tpc = "idle"

\* the state on entry of fill_buildup_and_water(g), after lines 252-259
Entry(g) ==
    /\ TessIdle
    /\ grid = g
    /\ result = grid
    /\ to_fill = ToFillOf(grid)
    /\ todo = {}
    /\ filled = {}
    /\ pc = "while"
    /\ run = 1
    /\ first_result = <<>>

\* `while to_fill:` true, the for-loop starts over a snapshot of to_fill
BeginPass ==
    /\ pc = "while"
    /\ to_fill # {}
    /\ pc' = "for"
    /\ todo' = to_fill
    /\ filled' = {}
    /\ UNCHANGED <<grid, result, to_fill, run, first_result>>
    /\ UNCHANGED notRepair

\* one iteration of `for i, j in to_fill`, cells taken in the set's order
VisitCell ==
    /\ pc = "for"
    /\ \E c \in todo :
        /\ todo' = todo \ {c}
        /\ IF NeighborCells(result, c) # {}
           THEN \E l \in MaxByCount(result, c) :
                    /\ result' = [result EXCEPT ![c[1]][c[2]] = l]
                    /\ filled' = filled \cup {c}
           ELSE UNCHANGED <<result, filled>>
    /\ UNCHANGED <<grid, to_fill, pc, run, first_result>>
    /\ UNCHANGED notRepair

\* the for-loop is over: `for pos in filled: to_fill.remove(pos)`
EndPass ==
    /\ pc = "for"
    /\ todo = {}
    /\ to_fill' = to_fill \ filled
    /\ pc' = "while"
    /\ UNCHANGED <<grid, result, todo, filled, run, first_result>>
    /\ UNCHANGED notRepair

\* `while to_fill:` false, `return result`
Return ==
    /\ pc = "while"
    /\ to_fill = {}
    /\ pc' = "done"
    /\ UNCHANGED <<grid, result, to_fill, todo, filled, run, first_result>>
    /\ UNCHANGED notRepair

\* the caller runs fill_buildup_and_water again on the same grid
SecondRun ==
    /\ pc = "done"
    /\ run = 1
    /\ run' = 2
    /\ first_result' = result
    /\ result' = grid
    /\ to_fill' = ToFillOf(grid)
    /\ todo' = {}
    /\ filled' = {}
    /\ pc' = "while"
    /\ UNCHANGED grid
    /\ UNCHANGED notRepair

InitRepair == \E g \in InputGrids(MaxCells) : Entry(g)

NextRepair == BeginPass \/ VisitCell \/ EndPass \/ Return

\* one call of fill_buildup_and_water
SpecRepair == InitRepair /\ [][NextRepair]_vars

InitRepairLive == \E g \in InputGrids(LiveMaxCells) : Entry(g)

\* one call, the interpreter executing the function for as long as it can
FairRepair == InitRepairLive /\ [][NextRepair]_vars /\ WF_vars(NextRepair)

NextRepairTwice == BeginPass \/ VisitCell \/ EndPass \/ Return \/ SecondRun

\* two calls of fill_buildup_and_water on the same grid, one after the other
SpecRepairTwice == InitRepair /\ [][NextRepairTwice]_vars

(***************************************************************************)
(* Claims about GridRepair                                                 *)
(***************************************************************************)
IsFillLabel(l) == l = "Built-up" \/ l = "Permanent water bodies"

\* no cell of g holds 'Built-up' or 'Permanent water bodies'
Clean(g) == \A c \in Cells(g) : ~IsFillLabel(g[c[1]][c[2]])

\* one 8-neighbour step
Adjacent(a, b) ==
    /\ a # b
    /\ a[1] - b[1] \in -1..1
    /\ a[2] - b[2] \in -1..1

RECURSIVE Reach(_, _)
\* the cells of g joined to a cell of S by a path of 8-neighbour steps
Reach(g, S) ==
    LET T == S \cup {b \in Cells(g) : \E a \in S : Adjacent(a, b)}
    IN  IF T = S THEN S ELSE Reach(g, T)

\* every disallowed cell of g is joined by 8-neighbour steps to an allowed cell
EveryFillCellReachesAllowed(g) ==
    \A c \in Cells(g) :
        IsFillLabel(g[c[1]][c[2]]) =>
            \E a \in Reach(g, {c}) : ~IsFillLabel(g[a[1]][a[2]])

\* C1: on every grid whose disallowed cells are each joined by 8-neighbour
\* steps to an allowed cell, fill_buildup_and_water returns, and the grid it
\* returns holds no disallowed label.
C1_TerminatesClean ==
    EveryFillCellReachesAllowed(grid) ~> (pc = "done" /\ Clean(result))

\* C1 witness: a call that needed more than one fill has returned a clean grid
C1_Witness ==
    /\ pc = "done"
    /\ Cardinality(ToFillOf(grid)) >= 3
    /\ \E c \in Cells(grid) : ~IsFillLabel(grid[c[1]][c[2]])
    /\ Clean(result)

\* C2: a pass of fill_buildup_and_water that fills nothing (the fixed point:
\* no pending cell has a qualifying neighbour) is followed by the report of a
\* DegenerateGridError, not by another pass and not by a return.
C2_DegenerateReported ==
    [][(pc = "for" /\ todo = {} /\ filled = {}) => pc' = "error"]_vars

\* the number of in-grid 8-neighbours of c holding the allowed label l in r
AllowedNeighbourCount(r, c, l) ==
    Cardinality({n \in Cells(r) : Adjacent(n, c) /\ r[n[1]][n[2]] = l})

\* C3: whenever a cell is replaced, it held a disallowed label and the label
\* written is an allowed label whose count among the cell's in-grid 8-neighbours
\* (disallowed ones ignored) is maximal at that moment; and the 4x4 grid with
\* only (0,0) 'Built-up' in 'Grassland' comes out with (0,0) = 'Grassland'.
C3_MajorityLabel ==
    /\ [][\A c \in Cells(grid) :
            result'[c[1]][c[2]] # result[c[1]][c[2]] =>
                /\ IsFillLabel(result[c[1]][c[2]])
                /\ ~IsFillLabel(result'[c[1]][c[2]])
                /\ AllowedNeighbourCount(result, c, result'[c[1]][c[2]]) >= 1
                /\ \A m \in Labels :
                      ~IsFillLabel(m) =>
                          AllowedNeighbourCount(result, c, m)
                              <= AllowedNeighbourCount(result, c, result'[c[1]][c[2]])
        ]_vars
    /\ []((pc = "done" /\ grid = Scenario4x4) => result[1][1] = "Grassland")

\* C3 witness: the 4x4 scenario has been repaired
C3_Witness == pc = "done" /\ grid = Scenario4x4 /\ result[1][1] = "Grassland"

\* C4: two calls of fill_buildup_and_water on the same grid return the same
\* grid.
C4_Deterministic == (run = 2 /\ pc = "done") => result = first_result

\* C5: on a grid holding only allowed labels the returned grid equals the
\* argument cell for cell.
C5_NoOpOnAllowed ==
    (pc = "done" /\ \A c \in Cells(grid) : ~IsFillLabel(grid[c[1]][c[2]]))
        => result = grid

\* C5 witness: a grid of two different allowed labels has been returned
C5_Witness ==
    /\ pc = "done"
    /\ \A c \in Cells(grid) : ~IsFillLabel(grid[c[1]][c[2]])
    /\ \E c, d \in Cells(grid) : grid[c[1]][c[2]] # grid[d[1]][d[2]]

(***************************************************************************)
(* The hexagonal indexing library (h3), as far as the pipeline uses it.    *)
(* A cell is <<res, q, r>>: its resolution and its axial coordinates on    *)
(* the planar hexagonal lattice of that resolution (no pentagon in the     *)
(* region).  Latitudes and longitudes are integers, in units of            *)
(* 1/1113200 degree (0.1 m of latitude), relative to a reference point of  *)
(* the region; lengths in metres are kept as integers, in units of 0.1 m.  *)
(***************************************************************************)
Abs(x) == IF x < 0 THEN -x ELSE x

Max2(a, b) == IF a >= b THEN a ELSE b

Min2(a, b) == IF a <= b THEN a ELSE b

\* cos(radians(latitude)) of the region, KNum / KDen (latitude 48.2 degrees)
KNum == 2

KDen == 3

\* h3.average_hexagon_edge_length(res, "m"), in units of 0.1 m
AvgHexEdge(res) ==
    CASE res = 10 -> 759
      [] res = 11 -> 287
      [] res = 12 -> 108
      [] res = 13 -> 41
      [] res = 14 -> 15

\* distance in latitude between two rows of cell centres: 1.5 edges
RowStep(res) == (3 * AvgHexEdge(res)) \div 2

\* half the distance in longitude between two centres in a row:
\* sqrt(3)/2 edges, divided by cos(latitude)
HalfColStep(res) == (13 * AvgHexEdge(res)) \div 10

\* h3.get_resolution
GetResolution(h) == h[1]

\* h3.cell_to_latlng(h)[0]
CellLat(h) == RowStep(h[1]) * h[3]

\* h3.cell_to_latlng(h)[1]
CellLon(h) == HalfColStep(h[1]) * (2 * h[2] + h[3])

\* h3.grid_distance on the planar lattice
GridDistance(a, b) ==
    (Abs(a[2] - b[2]) + Abs(a[3] - b[3]) + Abs((a[2] + a[3]) - (b[2] + b[3]))) \div 2

\* h3.grid_disk(center, k)
GridDisk(center, k) ==
    {h \in {center[1]} \X ((center[2] - k)..(center[2] + k))
                       \X ((center[3] - k)..(center[3] + k)) :
        GridDistance(center, h) <= k}

\* squared ground distance between a point and the centre of h, times KDen^2
GroundDist2(lat, lon, h) ==
    (KNum * (CellLon(h) - lon)) * (KNum * (CellLon(h) - lon))
        + (KDen * (CellLat(h) - lat)) * (KDen * (CellLat(h) - lat))

\* h3.latlng_to_cell(lat, lon, res): the cell whose hexagon holds the point
\* (points are taken within one cell of the reference point)
LatLngToCell(lat, lon, res) ==
    CHOOSE h \in {res} \X (-1..1) \X (-1..1) :
        \A g \in {res} \X (-1..1) \X (-1..1) :
            GroundDist2(lat, lon, h) <= GroundDist2(lat, lon, g)

(***************************************************************************)
(* Tessellator: map_to_hexagons                                            *)
(***************************************************************************)
\* int(n / d) for d # 0: truncation toward zero
Trunc(n, d) ==
    IF d < 0 THEN (IF n <= 0 THEN (-n) \div (-d) ELSE -(n \div (-d)))
    ELSE IF n >= 0 THEN n \div d ELSE -((-n) \div d)

\* the if/elif chain choosing the resolution
ResolutionOf(hex_size_m) ==
    IF hex_size_m >= 50 THEN 10
    ELSE IF hex_size_m >= 20 THEN 11
    ELSE IF hex_size_m >= 7 THEN 12
    ELSE IF hex_size_m >= 2 THEN 13
    ELSE 14

\* max(area_size_m)
MaxArea(area) == Max2(area[1], area[2])

\* faulty variant of RingsOf: the + 1 left out
RingsNoPad(area, res) == Trunc(MaxArea(area), 3 * AvgHexEdge(res))

\* radius_m = max(area_size_m) / 2; rings = int(radius_m / (avg_hex_edge * 1.5)) + 1:
\* (m / 2) / (e * 1.5) = m / (3 e)
RingsOf(area, res) == Trunc(MaxArea(area), 3 * AvgHexEdge(res)) + 1

\* faulty variant of RowOf: the `1 -` left out
RowNotFlipped(h_lat, lat_min, lat_max, height) ==
    Max2(0, Min2(height - 1, Trunc((h_lat - lat_min) * height, lat_max - lat_min)))

\* row = int((1 - (h_lat - lat_min) / (lat_max - lat_min)) * height), then
\* max(0, min(height - 1, row)); exact arithmetic in place of floats
RowOf(h_lat, lat_min, lat_max, height) ==
    Max2(0, Min2(height - 1,
        Trunc(((lat_max - lat_min) - (h_lat - lat_min)) * height, lat_max - lat_min)))

\* col = int((h_lon - lon_min) / (lon_max - lon_min) * width), then
\* max(0, min(width - 1, col))
ColOf(h_lon, lon_min, lon_max, width) ==
    Max2(0, Min2(width - 1, Trunc((h_lon - lon_min) * width, lon_max - lon_min)))

\* the dict hex_biomes the for-loop builds over the cells hexs
HexBiomesOf(g, rq, hexs) ==
    [h \in hexs |->
        g[RowOf(CellLat(h), rq.lat_min, rq.lat_max, Height(g)) + 1]
         [ColOf(CellLon(h), rq.lon_min, rq.lon_max, Width(g)) + 1]]

\* the largest number of rings a request of the model asks for
MaxRings == 2

HexSizes == {1, 2, 7, 20, 50}

\* area sizes in units of 0.1 m: 45 = 3 * 15 and 123 = 3 * 41 give a whole
\* quotient at resolutions 14 and 13
AreaSizes == {10, 45, 60, 123}

Centers == {<<0, 0>>, <<5, -8>>}

BBoxes ==
    { [lat_min |-> -30, lat_max |-> 30, lon_min |-> -45, lon_max |-> 45],
      [lat_min |-> -10, lat_max |-> 50, lon_min |-> 0, lon_max |-> 90],
      [lat_min |-> -3000, lat_max |-> 3000, lon_min |-> -4000, lon_max |-> 4000] }

TessGrids ==
    { << <<"Tree cover", "Shrubland">>, <<"Grassland", "Cropland">> >>,
      << <<"Tree cover", "Shrubland", "Grassland">>,
         <<"Cropland", "Moss and lichen", "Snow and ice">>,
         <<"Mangroves", "Herbaceous wetland", "Unclassifiable">> >> }

Requests ==
    {rq \in [lat : {c[1] : c \in Centers}, lon : {c[2] : c \in Centers},
             lat_min : {b.lat_min : b \in BBoxes}, lat_max : {b.lat_max : b \in BBoxes},
             lon_min : {b.lon_min : b \in BBoxes}, lon_max : {b.lon_max : b \in BBoxes},
             area_size_m : AreaSizes \X AreaSizes, hex_size_m : HexSizes] :
        /\ <<rq.lat, rq.lon>> \in Centers
        /\ [lat_min |-> rq.lat_min, lat_max |-> rq.lat_max,
            lon_min |-> rq.lon_min, lon_max |-> rq.lon_max] \in BBoxes
        /\ RingsOf(rq.area_size_m, ResolutionOf(rq.hex_size_m)) <= MaxRings}

\* fill_buildup_and_water is not running
RepairIdle ==
    /\ result = <<>>
    /\ to_fill = {}
    /\ todo = {}
    /\ filled = {}
    /\ pc = "idle"
    /\ run = 0
    /\ first_result = <<>>

InitTess ==
    /\ RepairIdle
    /\ RiverIdle
    /\ LakeIdle
    /\ grid \in TessGrids
    /\ req \in Requests
    /\ rings = 0
    /\ hex_biomes = <<>>
    /\ tpc = "call"

\* lat_max - lat_min or lon_max - lon_min is zero: the division of the first
\* iteration of `for hex_id in hexagons` raises ZeroDivisionError
DividesByZero(rq) == rq.lat_max = rq.lat_min \/ rq.lon_max = rq.lon_min

\* map_to_hexagons, from its call to the ZeroDivisionError
DivisionRaises ==
    /\ tpc = "call"
    /\ DividesByZero(req)
    /\ rings' = RingsOf(req.area_size_m, ResolutionOf(req.hex_size_m))
    /\ tpc' = "error"
    /\ UNCHANGED <<grid, req, hex_biomes>>
    /\ UNCHANGED notTess

\* map_to_hexagons, from its call to its return
MapToHexagons ==
    /\ tpc = "call"
    /\ ~DividesByZero(req)
    /\ LET resolution == ResolutionOf(req.hex_size_m)
           center_hex == LatLngToCell(req.lat, req.lon, resolution)
           rgs        == RingsOf(req.area_size_m, resolution)
       IN  /\ rings' = rgs
           /\ hex_biomes' = HexBiomesOf(grid, req, GridDisk(center_hex, rgs))
    /\ tpc' = "done"
    /\ UNCHANGED <<grid, req>>
    /\ UNCHANGED notTess

NextTess == MapToHexagons

SpecTess == InitTess /\ [][NextTess]_vars

(***************************************************************************)
(* Claims about the Tessellator                                            *)
(***************************************************************************)
\* x = n / d (d > 0) truncated to an integer and clamped to [0, size - 1] is idx
TruncClampIs(idx, n, d, size) ==
    /\ idx \in 0..(size - 1)
    /\ \/ idx = 0 /\ n < d
       \/ idx = size - 1 /\ n >= (size - 1) * d
       \/ idx * d <= n /\ n < (idx + 1) * d

\* the cells at most k steps from the cell of (lat, lon) at resolution res
DiskAround(lat, lon, res, k) ==
    {h \in {res} \X (-(k + 1)..(k + 1)) \X (-(k + 1)..(k + 1)) :
        GridDistance(LatLngToCell(lat, lon, res), h) <= k}

\* C6: map_to_hexagons returns one label for every cell of the enumerated disk
\* and for no other cell, whether or not the cell's centre lies in the bounding
\* box, and the label is grid[row][col] with
\* row = (1 - (lat - latMin) / (latMax - latMin)) * height and
\* col = (lon - lonMin) / (lonMax - lonMin) * width, truncated and clamped.
C6_EveryTileLabelled ==
    tpc = "done" =>
        /\ DOMAIN hex_biomes =
               DiskAround(req.lat, req.lon, ResolutionOf(req.hex_size_m), rings)
        /\ \A h \in DOMAIN hex_biomes :
              \E row \in 0..(Height(grid) - 1), col \in 0..(Width(grid) - 1) :
                  /\ TruncClampIs(row, (req.lat_max - CellLat(h)) * Height(grid),
                                  req.lat_max - req.lat_min, Height(grid))
                  /\ TruncClampIs(col, (CellLon(h) - req.lon_min) * Width(grid),
                                  req.lon_max - req.lon_min, Width(grid))
                  /\ hex_biomes[h] = grid[row + 1][col + 1]

OutsideBox(h) ==
    \/ CellLat(h) < req.lat_min
    \/ CellLat(h) > req.lat_max
    \/ CellLon(h) < req.lon_min
    \/ CellLon(h) > req.lon_max

\* C6 witness: a returned map with tiles inside the box, away from row 0 and
\* column 0, and tiles outside the box
C6_Witness ==
    /\ tpc = "done"
    /\ \E h \in DOMAIN hex_biomes : OutsideBox(h)
    /\ \E h \in DOMAIN hex_biomes :
          /\ ~OutsideBox(h)
          /\ hex_biomes[h] = grid[Height(grid)][Width(grid)]
          /\ Height(grid) = 3

\* C7: rings = ceil((max(widthM, heightM) / 2) / (edge * 1.5)) + 1 on every
\* request: rings - 1 is the least integer not below max / (3 * edge).
C7_RingsCeil ==
    tpc = "done" =>
        LET e3 == 3 * AvgHexEdge(ResolutionOf(req.hex_size_m))
        IN  /\ (rings - 2) * e3 < MaxArea(req.area_size_m)
            /\ MaxArea(req.area_size_m) <= (rings - 1) * e3

\* C7, amended: rings = floor((max(widthM, heightM) / 2) / (edge * 1.5)) + 1:
\* rings - 1 is the greatest integer not above max / (3 * edge).
C7_RingsFloor ==
    tpc = "done" =>
        LET e3 == 3 * AvgHexEdge(ResolutionOf(req.hex_size_m))
        IN  /\ (rings - 1) * e3 <= MaxArea(req.area_size_m)
            /\ MaxArea(req.area_size_m) < rings * e3

\* C7 witness: a request whose quotient is not whole and exceeds 1
C7_Witness ==
    /\ tpc = "done"
    /\ rings = 2
    /\ MaxArea(req.area_size_m) % (3 * AvgHexEdge(ResolutionOf(req.hex_size_m))) # 0

(***************************************************************************)
(* h3.grid_path_cells                                                      *)
(***************************************************************************)
\* the cells whose closed hexagon holds the point i / d of the way from a to
\* b (d the grid distance): the library rounds the interpolated cube
\* coordinates to a cell; where the point lies on the border of two
\* hexagons the cell depends on the library's rounding
LineCells(a, b, d, i) ==
    LET Q == a[2] * (d - i) + b[2] * i
        R == a[3] * (d - i) + b[3] * i
    IN  {c \in {a[1]} \X (Min2(a[2], b[2])..Max2(a[2], b[2]))
                      \X (Min2(a[3], b[3])..Max2(a[3], b[3])) :
            LET x == Q - d * c[2]
                z == R - d * c[3]
                y == -x - z
            IN  /\ Abs(x - y) <= d
                /\ Abs(y - z) <= d
                /\ Abs(z - x) <= d}

\* faulty variant of GridPathCells: the cells around both ends in place of
\* the path
GridPathAround(a, b) == {GridDisk(a, 1) \cap GridDisk(b, 1)}

\* the values h3.grid_path_cells(a, b) can have, each as the set of its cells
GridPathCells(a, b) ==
    LET d == GridDistance(a, b)
    IN  {{a, b} \cup {f[i] : i \in 1..(d - 1)} :
            f \in {g \in [1..(d - 1) -> UNION {LineCells(a, b, d, i) : i \in 1..(d - 1)}] :
                      \A i \in 1..(d - 1) : g[i] \in LineCells(a, b, d, i)}}

(***************************************************************************)
(* LineSnapper: snap_rivers_to_hexes                                       *)
(***************************************************************************)
RECURSIVE MinOver(_, _)
\* min([f[h] for h in hs]), hs a non-empty list
MinOver(f, hs) ==
    IF Len(hs) = 1 THEN f[hs[1]]
    ELSE Min2(f[hs[1]], MinOver(f, Tail(hs)))

RECURSIVE MaxOver(_, _)
\* max([f[h] for h in hs]), hs a non-empty list
MaxOver(f, hs) ==
    IF Len(hs) = 1 THEN f[hs[1]]
    ELSE Max2(f[hs[1]], MaxOver(f, Tail(hs)))

Range(q) == {q[i] : i \in 1..Len(q)}

\* lat_min, lat_max, lon_min, lon_max of all tile centres
Envelope(hs) ==
    LET lats == [h \in Range(hs) |-> CellLat(h)]
        lons == [h \in Range(hs) |-> CellLon(h)]
    IN  [lat_min |-> MinOver(lats, hs), lat_max |-> MaxOver(lats, hs),
         lon_min |-> MinOver(lons, hs), lon_max |-> MaxOver(lons, hs)]

\* lat_min <= lat <= lat_max and lon_min <= lon <= lon_max, for the point
\* (lon / n, lat / n)
InBounds(box, lon, lat, n) ==
    /\ box.lat_min * n <= lat
    /\ lat <= box.lat_max * n
    /\ box.lon_min * n <= lon
    /\ lon <= box.lon_max * n

\* d of find_nearest_hex_fast for the point (pt_lon / n, pt_lat / n), times
\* (n * KDen)^2; lat_correction is KNum / KDen
Dist2(h, pt_lon, pt_lat, n) ==
    (KNum * (n * CellLon(h) - pt_lon)) * (KNum * (n * CellLon(h) - pt_lon))
        + (KDen * (n * CellLat(h) - pt_lat)) * (KDen * (n * CellLat(h) - pt_lat))

\* faulty variant of FindNearestHexFast: the first tile is returned unscanned
FindNearestNoScan(pt_lon, pt_lat, n, hs) ==
    IF Len(hs) = 0 THEN None ELSE hs[1]

\* find_nearest_hex_fast: the linear scan keeps the first tile of the least d
FindNearestHexFast(pt_lon, pt_lat, n, hs) ==
    IF Len(hs) = 0 THEN None
    ELSE LET k == CHOOSE i \in 1..Len(hs) :
                    /\ \A m \in 1..Len(hs) :
                          Dist2(hs[i], pt_lon, pt_lat, n) <= Dist2(hs[m], pt_lon, pt_lat, n)
                    /\ \A m \in 1..(i - 1) :
                          Dist2(hs[m], pt_lon, pt_lat, n) > Dist2(hs[i], pt_lon, pt_lat, n)
         IN  hs[k]

\* int(segment_length / (avg_hex_edge * 0.3)): dx = (lon2 - lon1) * 111320 *
\* |cos(lat_avg)| and dy = (lat2 - lat1) * 111320 are, in units of 0.1 m,
\* (lon2 - lon1) * KNum / KDen and (lat2 - lat1), the cosine taken at the
\* latitude of the region; the result is the greatest m with
\* m * 0.3 * edge <= sqrt(dx^2 + dy^2)
SegmentSteps(p1, p2, edge) ==
    LET dlon == KNum * (p2[1] - p1[1])
        dlat == KDen * (p2[2] - p1[2])
        top  == (10 * (Abs(dlon) + Abs(dlat))) \div (3 * edge * KDen) + 1
    IN  CHOOSE m \in 0..top :
            /\ (3 * edge * KDen * m) * (3 * edge * KDen * m)
                   <= 100 * (dlon * dlon + dlat * dlat)
            /\ (3 * edge * KDen * (m + 1)) * (3 * edge * KDen * (m + 1))
                   > 100 * (dlon * dlon + dlat * dlat)

\* num_points = max(10, int(segment_length / (avg_hex_edge * 0.3)))
NumPoints(p1, p2, edge) == Max2(10, SegmentSteps(p1, p2, edge))

\* faulty variant of ShouldBridge: < in place of <=
ShouldBridgeBelowThree(grid_dist) == grid_dist < 3

\* grid_dist is not None and grid_dist <= 3
ShouldBridge(grid_dist) == grid_dist <= 3

\* faulty variant of BridgeHexes: the exceptions are not looked at
BridgeDespiteFailure(prev, nearest) ==
    IF ShouldBridge(GridDistance(prev, nearest))
    THEN GridPathCells(prev, nearest)
    ELSE {{}}

\* the values of bridge_hexes that reach the result, for prev_hex and nearest
\* different: grid_dist is None when h3.grid_distance raises, and nothing is
\* added when h3.grid_path_cells raises or grid_dist is None or above 3
BridgeHexes(prev, nearest) ==
    IF /\ {prev, nearest} \notin h3_fail.dist
       /\ ShouldBridge(GridDistance(prev, nearest))
       /\ {prev, nearest} \notin h3_fail.path
    THEN GridPathCells(prev, nearest)
    ELSE {{}}

\* the segment the loops are at
Coords == rivers[fi].coordinates

P1 == Coords[si]

P2 == Coords[si + 1]

\* avg_hex_edge: the edge length at the resolution of list(hexagons)[0]
AvgEdge == AvgHexEdge(GetResolution(hexagons[1]))

\* num_points times the sample j: pt_lon = lon1 + t * (lon2 - lon1) with
\* t = j / num_points
SampleLon(j) == num_points * P1[1] + j * (P2[1] - P1[1])

SampleLat(j) == num_points * P1[2] + j * (P2[2] - P1[2])

\* the sample j lies in the envelope
SampleInBounds(j) == InBounds(env, SampleLon(j), SampleLat(j), num_points)

\* pt1_in, pt2_in
PointIn(pt) == InBounds(env, pt[1], pt[2], 1)

\* faulty variant of KeepSegment: no segment is skipped
KeepSegmentAlways(pt1_in, pt2_in) == TRUE

\* pt1_in or pt2_in
KeepSegment(pt1_in, pt2_in) == pt1_in \/ pt2_in

\* `for feature in rivers` has a feature left and `for i in range(len(coords) - 1)`
\* a segment
AtSegment ==
    /\ rpc = "segment"
    /\ fi <= Len(rivers)
    /\ si <= Len(Coords) - 1

\* `if not (pt1_in or pt2_in): continue`
SkipSegment ==
    /\ AtSegment
    /\ ~KeepSegment(PointIn(P1), PointIn(P2))
    /\ si' = si + 1
    /\ UNCHANGED <<hexagons, rivers, env, water_hexes, num_points, fi, sj, prev_hex, rpc>>
    /\ UNCHANGED notRiver

\* the segment is kept: prev_hex = None and the sample loop starts
BeginSegment ==
    /\ AtSegment
    /\ KeepSegment(PointIn(P1), PointIn(P2))
    /\ num_points' = NumPoints(P1, P2, AvgEdge)
    /\ prev_hex' = None
    /\ sj' = 0
    /\ rpc' = "sample"
    /\ UNCHANGED <<hexagons, rivers, env, water_hexes, fi, si>>
    /\ UNCHANGED notRiver

\* faulty variant of OnSampleOut: prev_hex is kept
OnSampleOutKeep(prev) == prev

\* a sample out of bounds: prev_hex = None
OnSampleOut(prev) == None

\* one iteration of `for j in range(num_points + 1)`, the sample out of bounds
SampleOut ==
    /\ rpc = "sample"
    /\ sj <= num_points
    /\ ~SampleInBounds(sj)
    /\ prev_hex' = OnSampleOut(prev_hex)
    /\ sj' = sj + 1
    /\ UNCHANGED <<hexagons, rivers, env, water_hexes, num_points, fi, si, rpc>>
    /\ UNCHANGED notRiver

\* one iteration of `for j in range(num_points + 1)`, the sample in bounds
SampleIn ==
    /\ rpc = "sample"
    /\ sj <= num_points
    /\ SampleInBounds(sj)
    /\ LET nearest == FindNearestHexFast(SampleLon(sj), SampleLat(sj), num_points, hexagons)
       IN  /\ IF prev_hex # None /\ prev_hex # nearest
              THEN \E bridge_hexes \in BridgeHexes(prev_hex, nearest) :
                       water_hexes' = water_hexes \cup {nearest} \cup bridge_hexes
              ELSE water_hexes' = water_hexes \cup {nearest}
           /\ prev_hex' = nearest
    /\ sj' = sj + 1
    /\ UNCHANGED <<hexagons, rivers, env, num_points, fi, si, rpc>>
    /\ UNCHANGED notRiver

\* the sample loop is over: next i
EndSegment ==
    /\ rpc = "sample"
    /\ sj > num_points
    /\ si' = si + 1
    /\ rpc' = "segment"
    /\ UNCHANGED <<hexagons, rivers, env, water_hexes, num_points, fi, sj, prev_hex>>
    /\ UNCHANGED notRiver

\* `for i in range(len(coords) - 1)` is over: next feature
NextFeature ==
    /\ rpc = "segment"
    /\ fi <= Len(rivers)
    /\ si > Len(Coords) - 1
    /\ fi' = fi + 1
    /\ si' = 1
    /\ UNCHANGED <<hexagons, rivers, env, water_hexes, num_points, sj, prev_hex, rpc>>
    /\ UNCHANGED notRiver

\* `for feature in rivers` is over: return water_hexes
ReturnRivers ==
    /\ rpc = "segment"
    /\ fi > Len(rivers)
    /\ rpc' = "done"
    /\ UNCHANGED <<hexagons, rivers, env, water_hexes, num_points, fi, si, sj, prev_hex>>
    /\ UNCHANGED notRiver

\* the longest line of the model, in vertices
MaxVerts == 3

\* the cell the tile sets of the model lie around, at resolution 14
SnapCenter == <<14, 0, 0>>

\* the cell dq, dr away from SnapCenter
Tile(dq, dr) == <<SnapCenter[1], SnapCenter[2] + dq, SnapCenter[3] + dr>>

Ring(center, k) == {h \in GridDisk(center, k) : GridDistance(center, h) = k}

\* tile sets: a disk of one ring, the outer ring of a disk of two, and three
\* scattered tiles
TileSets ==
    { GridDisk(SnapCenter, 1),
      Ring(SnapCenter, 2),
      {Tile(-2, 0), Tile(1, 0), Tile(0, 2), Tile(2, -2)} }

\* h before g in the order the tiles are listed in
Before(h, g) == h[2] < g[2] \/ (h[2] = g[2] /\ h[3] < g[3])

RECURSIVE ListOf(_)
\* the tiles of S as a list
ListOf(S) ==
    IF S = {} THEN <<>>
    ELSE LET h == CHOOSE x \in S : \A y \in S \ {x} : Before(x, y)
         IN  <<h>> \o ListOf(S \ {h})

\* vertices (lon, lat): inside and outside the envelopes of the tile sets
Points == {<<-76, 0>>, <<76, 0>>, <<0, 0>>, <<-90, 30>>, <<90, -30>>, <<20, 50>>}

RECURSIVE LinesOf(_)
\* the lines of n vertices
LinesOf(n) ==
    IF n = 0 THEN {<<>>}
    ELSE {Append(l, pt) : l \in LinesOf(n - 1), pt \in Points}

Lines == UNION {LinesOf(n) : n \in 2..MaxVerts}

InitRiver ==
    /\ RepairIdle
    /\ LakeIdle
    /\ grid = <<>>
    /\ req = <<>>
    /\ rings = 0
    /\ hex_biomes = <<>>
    /\ tpc = "idle"
    /\ hexagons \in {ListOf(S) : S \in TileSets}
    /\ rivers \in {<<[coordinates |-> l]>> : l \in Lines}
    /\ env = Envelope(hexagons)
    /\ water_hexes = {}
    /\ num_points = 0
    /\ fi = 1
    /\ si = 1
    /\ sj = 0
    /\ prev_hex = None
    /\ rpc = "segment"

NextRiver ==
    \/ SkipSegment
    \/ BeginSegment
    \/ SampleOut
    \/ SampleIn
    \/ EndSegment
    \/ NextFeature
    \/ ReturnRivers

\* one call of snap_rivers_to_hexes
SpecRiver == InitRiver /\ [][NextRiver]_vars

(***************************************************************************)
(* Claims about the LineSnapper                                            *)
(***************************************************************************)
\* the step is one iteration of the sample loop, for sample sj
SampleStep == rpc = "sample" /\ sj <= num_points /\ sj' = sj + 1

\* the tile the sample j of the running segment maps to
TileOfSample(j) == FindNearestHexFast(SampleLon(j), SampleLat(j), num_points, hexagons)

\* C8: when the samples j - 1 and j of a segment are both in bounds and map
\* to different tiles a and b, the iteration for j adds every tile of the
\* hex-grid path from a to b if the hex-grid distance of a and b is at most 3,
\* and adds no tile other than a and b if it exceeds 3.
C8_BridgeWithinThree ==
    [][(/\ SampleStep
        /\ sj >= 1
        /\ SampleInBounds(sj - 1)
        /\ SampleInBounds(sj)
        /\ TileOfSample(sj - 1) # TileOfSample(sj))
       => LET a == TileOfSample(sj - 1)
              b == TileOfSample(sj)
          IN  IF GridDistance(a, b) <= 3
              THEN \E path \in GridPathCells(a, b) :
                       water_hexes' = water_hexes \cup path
              ELSE /\ water_hexes' \ water_hexes \subseteq {a, b}
                   /\ {a, b} \subseteq water_hexes'
      ]_vars

\* C8 witness: the last two samples mapped to tiles a, b more than 3 apart,
\* after a bridge over a gap of 2 or 3 put a tile between two others
C8_Witness ==
    /\ rpc = "sample"
    /\ sj >= 2
    /\ SampleInBounds(sj - 2)
    /\ SampleInBounds(sj - 1)
    /\ GridDistance(TileOfSample(sj - 2), TileOfSample(sj - 1)) > 3
    /\ \E a \in water_hexes, b \in water_hexes :
          /\ GridDistance(a, b) \in 2..3
          /\ \E path \in GridPathCells(a, b) :
                /\ path \subseteq water_hexes
                /\ path \ Range(hexagons) # {}

\* C9: an iteration whose sample is out of bounds leaves prev_hex cleared and
\* adds no tile; and the iteration for an in-bounds sample that follows an
\* out-of-bounds sample (or starts the segment) adds the sample's own tile at
\* most: no bridge reaches back over the samples out of bounds.
C9_ResetOutOfBounds ==
    [][SampleStep =>
        /\ ~SampleInBounds(sj) =>
              /\ prev_hex' = None
              /\ water_hexes' = water_hexes
        /\ (SampleInBounds(sj) /\ (sj = 0 \/ ~SampleInBounds(sj - 1))) =>
              water_hexes' \ water_hexes \subseteq {TileOfSample(sj)}
      ]_vars

\* C9 witness: the sample after an in-bounds sample was out of bounds and the
\* tracker is cleared
C9_Witness ==
    /\ rpc = "sample"
    /\ sj >= 2
    /\ SampleInBounds(sj - 2)
    /\ ~SampleInBounds(sj - 1)
    /\ prev_hex = None
    /\ water_hexes # {}

\* the point lies outside the min/max latitude and longitude of the tile centres
OutsideEnvelope(pt) ==
    \/ \A h \in Range(hexagons) : pt[2] < CellLat(h)
    \/ \A h \in Range(hexagons) : pt[2] > CellLat(h)
    \/ \A h \in Range(hexagons) : pt[1] < CellLon(h)
    \/ \A h \in Range(hexagons) : pt[1] > CellLon(h)

\* C10: a segment whose two endpoints are outside the envelope of the tile
\* centres is passed over without a sample and adds no tile; and when every
\* vertex of every line is outside the envelope the set returned is empty.
C10_OutsideSegmentsSkipped ==
    /\ [][(/\ rpc = "segment"
           /\ fi <= Len(rivers)
           /\ si <= Len(rivers[fi].coordinates) - 1
           /\ OutsideEnvelope(rivers[fi].coordinates[si])
           /\ OutsideEnvelope(rivers[fi].coordinates[si + 1]))
          => (water_hexes' = water_hexes /\ rpc' = "segment" /\ si' = si + 1)
        ]_vars
    /\ []((/\ rpc = "done"
           /\ \A f \in 1..Len(rivers) :
                 \A v \in 1..Len(rivers[f].coordinates) :
                     OutsideEnvelope(rivers[f].coordinates[v]))
          => water_hexes = {})

\* C10 witness: nothing was snapped for a line with a segment that crosses the
\* envelope (its midpoint is inside) between two endpoints outside
C10_Witness ==
    /\ rpc = "done"
    /\ water_hexes = {}
    /\ \E v \in 1..(Len(rivers[1].coordinates) - 1) :
          LET p == rivers[1].coordinates[v]
              q == rivers[1].coordinates[v + 1]
          IN  /\ OutsideEnvelope(p)
              /\ OutsideEnvelope(q)
              /\ InBounds(env, p[1] + q[1], p[2] + q[2], 2)

\* t is the one tile of the tile set nearest to pt, in the metric of
\* find_nearest_hex_fast
OnlyNearest(t, pt) ==
    /\ t \in Range(hexagons)
    /\ \A u \in Range(hexagons) \ {t} : Dist2(t, pt[1], pt[2], 1) < Dist2(u, pt[1], pt[2], 1)

\* one river of two vertices has been snapped
TwoVertexRiverDone ==
    /\ rpc = "done"
    /\ Len(rivers) = 1
    /\ Len(rivers[1].coordinates) = 2

\* C11: for a single river of two vertices whose endpoints both have the tile
\* t as their nearest tile, the set returned is {t}, wherever the endpoints lie.
C11_SameTileSingleton ==
    TwoVertexRiverDone =>
        \A t \in Range(hexagons) :
            (OnlyNearest(t, rivers[1].coordinates[1]) /\ OnlyNearest(t, rivers[1].coordinates[2]))
                => water_hexes = {t}

\* C11, amended: the same, for a river with at least one endpoint within the
\* envelope of the tile centres; with both endpoints outside the segment is
\* skipped and the set returned is empty.
C11_SameTileSingletonInEnvelope ==
    TwoVertexRiverDone =>
        \A t \in Range(hexagons) :
            (/\ OnlyNearest(t, rivers[1].coordinates[1])
             /\ OnlyNearest(t, rivers[1].coordinates[2]))
                => water_hexes =
                       IF \/ ~OutsideEnvelope(rivers[1].coordinates[1])
                          \/ ~OutsideEnvelope(rivers[1].coordinates[2])
                       THEN {t} ELSE {}

\* C11 witness: a river between two different points, one within the envelope,
\* both nearest to a tile that is not the first of the tile list, was snapped
\* to that tile alone
C11_Witness ==
    /\ TwoVertexRiverDone
    /\ rivers[1].coordinates[1] # rivers[1].coordinates[2]
    /\ ~OutsideEnvelope(rivers[1].coordinates[1])
    /\ \E t \in Range(hexagons) \ {hexagons[1]} :
          /\ OnlyNearest(t, rivers[1].coordinates[1])
          /\ OnlyNearest(t, rivers[1].coordinates[2])
          /\ water_hexes = {t}

(***************************************************************************)
(* PolygonSnapper: snap_lakes_to_hexes                                     *)
(***************************************************************************)
\* the ring edge k of poly toggles `inside` for the point (x, y): the four
\* nested ifs of point_in_polygon, with x <= xinters cleared of its division
EdgeToggles(x, y, poly, k) ==
    LET p1 == poly[k]
        p2 == poly[(k % Len(poly)) + 1]
        dlat == p2[2] - p1[2]
    IN  /\ y > Min2(p1[2], p2[2])
        /\ y <= Max2(p1[2], p2[2])
        /\ x <= Max2(p1[1], p2[1])
        /\ \/ p1[1] = p2[1]
           \/ dlat > 0 /\ (x - p1[1]) * dlat <= (y - p1[2]) * (p2[1] - p1[1])
           \/ dlat < 0 /\ (x - p1[1]) * dlat >= (y - p1[2]) * (p2[1] - p1[1])

\* faulty variant of PointInPolygon: no point is inside
PointInNoPolygon(pt_lon, pt_lat, poly_coords) == FALSE

\* point_in_polygon: `inside` has been toggled an odd number of times
PointInPolygon(pt_lon, pt_lat, poly_coords) ==
    Cardinality({k \in 1..Len(poly_coords) :
                    EdgeToggles(pt_lon, pt_lat, poly_coords, k)}) % 2 = 1

\* lake_lat_min, lake_lat_max, lake_lon_min, lake_lon_max of main_ring
LakeBounds(main_ring) ==
    LET lats == [c \in Range(main_ring) |-> c[2]]
        lons == [c \in Range(main_ring) |-> c[1]]
    IN  [lat_min |-> MinOver(lats, main_ring), lat_max |-> MaxOver(lats, main_ring),
         lon_min |-> MinOver(lons, main_ring), lon_max |-> MaxOver(lons, main_ring)]

\* the lake is completely outside the hex grid
LakeOutside(lb, box) ==
    \/ lb.lat_max < box.lat_min
    \/ lb.lat_min > box.lat_max
    \/ lb.lon_max < box.lon_min
    \/ lb.lon_min > box.lon_max

\* the keys of the dict candidates, in the order of hex_positions
CandidatesOf(hs, lb) ==
    LET InLakeBounds(h) ==
            /\ lb.lat_min <= CellLat(h)
            /\ CellLat(h) <= lb.lat_max
            /\ lb.lon_min <= CellLon(h)
            /\ CellLon(h) <= lb.lon_max
    IN  SelectSeq(hs, InLakeBounds)

\* num_points = max(5, int(edge_length / (avg_hex_edge * 0.3)))
RingNumPoints(p1, p2, edge) == Max2(5, SegmentSteps(p1, p2, edge))

\* faulty variant of AddsToResult: the tiles of hole rings are added too
AddsHolesToo(is_hole) == TRUE

\* `if not is_hole:` before lake_hexes.add and lake_hexes.update
AddsToResult(is_hole) == ~is_hole

\* faulty variant of InsideHole: the holes are not looked at
InsideHoleNever(hex_lon, hex_lat, hole_rings) == FALSE

\* inside_hole after `for hole in hole_rings`
InsideHole(hex_lon, hex_lat, hole_rings) ==
    \E k \in 1..Len(hole_rings) : PointInPolygon(hex_lon, hex_lat, hole_rings[k])

\* faulty variant of InteriorOf: every candidate is taken
InteriorAll(cands, main_ring, hole_rings) == Range(cands)

\* the tiles the loop `for hex_id, (hex_lat, hex_lon) in candidates.items()`
\* finds inside the outer ring and in no hole
InteriorOf(cands, main_ring, hole_rings) ==
    {h \in Range(cands) :
        /\ PointInPolygon(CellLon(h), CellLat(h), main_ring)
        /\ ~InsideHole(CellLon(h), CellLat(h), hole_rings)}

\* the lake, the ring and the edge the loops are at
Lake == lakes[li]

MainRing == Lake.coordinates[1]

HoleRings == Tail(Lake.coordinates)

RingCoords == Lake.coordinates[ri]

E1 == RingCoords[si]

E2 == RingCoords[(si % Len(RingCoords)) + 1]

\* num_points times the sample j of the ring edge
RingSampleLon(j) == num_points * E1[1] + j * (E2[1] - E1[1])

RingSampleLat(j) == num_points * E1[2] + j * (E2[2] - E1[2])

\* the lake passes the first `continue` and its main_ring is empty: min(lats)
\* raises ValueError
MinOfEmpty(lake) ==
    IF lake.type # "Polygon" \/ Len(lake.coordinates) = 0 THEN FALSE
    ELSE Len(lake.coordinates[1]) = 0

\* the lake is passed over: it is no polygon, has no ring, lies outside the
\* envelope of the tiles or has no candidate
LakeSkipped(lake) ==
    IF lake.type # "Polygon" \/ Len(lake.coordinates) = 0 THEN TRUE
    ELSE IF LakeOutside(LakeBounds(lake.coordinates[1]), env) THEN TRUE
    ELSE Len(CandidatesOf(hexagons, LakeBounds(lake.coordinates[1]))) = 0

\* one of the three `continue` of the loop over the lakes
SkipLake ==
    /\ lpc = "lake"
    /\ li <= Len(lakes)
    /\ ~MinOfEmpty(Lake)
    /\ LakeSkipped(Lake)
    /\ li' = li + 1
    /\ UNCHANGED <<hexagons, env, num_points, si, sj, prev_hex>>
    /\ UNCHANGED <<lakes, candidates, lake_hexes, ri, lpc>>
    /\ UNCHANGED notLake

\* the lake is kept: candidates is built and trace_ring(main_ring) is called
BeginLake ==
    /\ lpc = "lake"
    /\ li <= Len(lakes)
    /\ ~MinOfEmpty(Lake)
    /\ ~LakeSkipped(Lake)
    /\ candidates' = CandidatesOf(hexagons, LakeBounds(MainRing))
    /\ ri' = 1
    /\ si' = 1
    /\ lpc' = "edge"
    /\ UNCHANGED <<hexagons, env, num_points, sj, prev_hex>>
    /\ UNCHANGED <<lakes, lake_hexes, li>>
    /\ UNCHANGED notLake

\* trace_ring: one iteration of `for i in range(len(ring_coords))` up to the
\* sample loop
BeginEdge ==
    /\ lpc = "edge"
    /\ ri <= Len(Lake.coordinates)
    /\ si <= Len(RingCoords)
    /\ num_points' = RingNumPoints(E1, E2, AvgEdge)
    /\ prev_hex' = None
    /\ sj' = 0
    /\ lpc' = "sample"
    /\ UNCHANGED <<hexagons, env, si>>
    /\ UNCHANGED <<lakes, candidates, lake_hexes, li, ri>>
    /\ UNCHANGED notLake

\* trace_ring: one iteration of `for j in range(num_points + 1)`
RingSample ==
    /\ lpc = "sample"
    /\ sj <= num_points
    /\ LET nearest == FindNearestHexFast(RingSampleLon(sj), RingSampleLat(sj),
                                         num_points, candidates)
       IN  /\ prev_hex' = nearest
           /\ IF nearest # None /\ AddsToResult(ri > 1)
              THEN IF prev_hex # None /\ prev_hex # nearest
                   THEN \E bridge_hexes \in BridgeHexes(prev_hex, nearest) :
                            lake_hexes' = lake_hexes \cup {nearest} \cup bridge_hexes
                   ELSE lake_hexes' = lake_hexes \cup {nearest}
              ELSE lake_hexes' = lake_hexes
    /\ sj' = sj + 1
    /\ UNCHANGED <<hexagons, env, num_points, si>>
    /\ UNCHANGED <<lakes, candidates, li, ri, lpc>>
    /\ UNCHANGED notLake

\* trace_ring: the sample loop is over, next i
EndEdge ==
    /\ lpc = "sample"
    /\ sj > num_points
    /\ si' = si + 1
    /\ lpc' = "edge"
    /\ UNCHANGED <<hexagons, env, num_points, sj, prev_hex>>
    /\ UNCHANGED <<lakes, candidates, lake_hexes, li, ri>>
    /\ UNCHANGED notLake

\* trace_ring returns: the next ring, a hole, is traced
NextRing ==
    /\ lpc = "edge"
    /\ ri <= Len(Lake.coordinates)
    /\ si > Len(RingCoords)
    /\ ri' = ri + 1
    /\ si' = 1
    /\ UNCHANGED <<hexagons, env, num_points, sj, prev_hex>>
    /\ UNCHANGED <<lakes, candidates, lake_hexes, li, lpc>>
    /\ UNCHANGED notLake

\* all rings are traced: the loop that fills the interior, then the next lake
FillInterior ==
    /\ lpc = "edge"
    /\ ri > Len(Lake.coordinates)
    /\ lake_hexes' = lake_hexes \cup InteriorOf(candidates, MainRing, HoleRings)
    /\ li' = li + 1
    /\ lpc' = "lake"
    /\ UNCHANGED <<hexagons, env, num_points, si, sj, prev_hex>>
    /\ UNCHANGED <<lakes, candidates, ri>>
    /\ UNCHANGED notLake

\* `for lake in lakes` is over: return lake_hexes
ReturnLakes ==
    /\ lpc = "lake"
    /\ li > Len(lakes)
    /\ lpc' = "done"
    /\ UNCHANGED <<hexagons, env, num_points, si, sj, prev_hex>>
    /\ UNCHANGED <<lakes, candidates, lake_hexes, li, ri>>
    /\ UNCHANGED notLake

\* min() of the empty main_ring raises: the call ends with the exception
MinRaises ==
    /\ lpc = "lake"
    /\ li <= Len(lakes)
    /\ MinOfEmpty(Lake)
    /\ lpc' = "error"
    /\ UNCHANGED <<hexagons, env, num_points, si, sj, prev_hex>>
    /\ UNCHANGED <<lakes, candidates, lake_hexes, li, ri>>
    /\ UNCHANGED notLake

NextLake ==
    \/ SkipLake
    \/ BeginLake
    \/ BeginEdge
    \/ RingSample
    \/ EndEdge
    \/ NextRing
    \/ FillInterior
    \/ ReturnLakes

\* tile sets for the lakes: a disk of two rings and its outer ring alone
LakeTileSets == {GridDisk(SnapCenter, 2), Ring(SnapCenter, 2)}

\* vertices (lon, lat) of the triangles
LakePoints == {<<-100, -60>>, <<100, -60>>, <<0, 70>>, <<-30, -10>>, <<50, 30>>}

\* vertices of triangles with edges shorter than three tile edges
PondPoints == {<<-20, -10>>, <<25, -8>>, <<0, 25>>, <<12, 4>>}

\* twice the signed area of the triangle a, b, c
Cross(a, b, c) == (b[1] - a[1]) * (c[2] - a[2]) - (b[2] - a[2]) * (c[1] - a[1])

\* the rings of three vertices that enclose an area
TrianglesOf(pts) ==
    {t \in {<<a, b, c>> : a \in pts, b \in pts, c \in pts} : Cross(t[1], t[2], t[3]) # 0}

Triangles == TrianglesOf(LakePoints) \cup TrianglesOf(PondPoints)

\* a rectangle of half-width w and half-height h around the reference point
Rect(w, h) == <<<<-w, -h>>, <<w, -h>>, <<w, h>>, <<-w, h>>>>

\* a lake of one ring, and a lake with holes
Polygon(rgs) == [type |-> "Polygon", coordinates |-> rgs]

\* lakes with a hole: a small one around the middle tile, away from the outer
\* ring; one that reaches close to the outer ring; both
HoleLakes ==
    { Polygon(<<Rect(100, 60), Rect(10, 10)>>),
      Polygon(<<Rect(100, 60), Rect(90, 50)>>),
      Polygon(<<Rect(60, 30), Rect(10, 10), <<<<30, -5>>, <<45, -5>>, <<38, 8>>>>>>) }

\* lakes the loop passes over: outside the tiles, between the tile centres,
\* of another geometry type, without coordinates
PassedLakes ==
    { Polygon(<<<<<<200, 0>>, <<300, 0>>, <<250, 40>>>>>>),
      Polygon(<<<<<<5, 5>>, <<15, 5>>, <<10, 12>>>>>>),
      [type |-> "MultiPolygon", coordinates |-> <<<<Rect(100, 60)>>>>],
      Polygon(<<>>) }

\* a quadrilateral with a reflex vertex
Chevron == <<<<-100, -60>>, <<0, -20>>, <<100, -60>>, <<0, 70>>>>

SimpleLakes ==
    {Polygon(<<t>>) : t \in Triangles} \cup {Polygon(<<Rect(100, 60)>>), Polygon(<<Chevron>>)}

InitLake ==
    /\ RepairIdle
    /\ grid = <<>>
    /\ req = <<>>
    /\ rings = 0
    /\ hex_biomes = <<>>
    /\ tpc = "idle"
    /\ rivers = <<>>
    /\ water_hexes = {}
    /\ fi = 0
    /\ rpc = "idle"
    /\ hexagons \in {ListOf(S) : S \in LakeTileSets}
    /\ env = Envelope(hexagons)
    /\ num_points = 0
    /\ si = 0
    /\ sj = 0
    /\ prev_hex = None
    /\ lakes \in {<<l>> : l \in SimpleLakes \cup HoleLakes \cup PassedLakes}
    /\ candidates = <<>>
    /\ lake_hexes = {}
    /\ li = 1
    /\ ri = 0
    /\ lpc = "lake"
    /\ h3_fail = NoFail
    /\ NearestIdle
    /\ ServerIdle

\* one call of snap_lakes_to_hexes
SpecLake == InitLake /\ [][NextLake]_vars

(***************************************************************************)
(* Claims about the PolygonSnapper                                         *)
(***************************************************************************)
\* the edge k of the ring, as its two vertices
EdgeOf(ring, k) == <<ring[k], ring[(k % Len(ring)) + 1]>>

\* pt lies on the boundary of the ring
OnRing(pt, ring) ==
    \E k \in 1..Len(ring) :
        LET a == EdgeOf(ring, k)[1]
            b == EdgeOf(ring, k)[2]
        IN  /\ Cross(a, b, pt) = 0
            /\ Min2(a[1], b[1]) <= pt[1] /\ pt[1] <= Max2(a[1], b[1])
            /\ Min2(a[2], b[2]) <= pt[2] /\ pt[2] <= Max2(a[2], b[2])

\* the edges of the ring that pass the latitude of pt east of pt
EdgesEastOf(pt, ring) ==
    {k \in 1..Len(ring) :
        LET a == EdgeOf(ring, k)[1]
            b == EdgeOf(ring, k)[2]
        IN  \/ a[2] <= pt[2] /\ pt[2] < b[2] /\ Cross(a, b, pt) > 0
            \/ b[2] <= pt[2] /\ pt[2] < a[2] /\ Cross(a, b, pt) < 0}

\* pt is strictly inside the simple polygon of the ring
StrictlyInside(pt, ring) ==
    ~OnRing(pt, ring) /\ Cardinality(EdgesEastOf(pt, ring)) % 2 = 1

\* pt is strictly outside the simple polygon of the ring
StrictlyOutside(pt, ring) ==
    ~OnRing(pt, ring) /\ Cardinality(EdgesEastOf(pt, ring)) % 2 = 0

\* the centre of the tile h as a point (lon, lat)
Centre(h) == <<CellLon(h), CellLat(h)>>

\* one lake, a polygon of the given number of rings, has been snapped
OneLakeDone(nrings) ==
    /\ lpc = "done"
    /\ Len(lakes) = 1
    /\ lakes[1].type = "Polygon"
    /\ Len(lakes[1].coordinates) = nrings

\* C12: for a polygon without holes, every tile whose centre is strictly
\* inside the polygon is in the set returned.
C12_InteriorIncluded ==
    OneLakeDone(1) =>
        \A h \in Range(hexagons) :
            StrictlyInside(Centre(h), lakes[1].coordinates[1]) => h \in lake_hexes

\* C12 witness: a returned tile that lies, with its six neighbours, strictly
\* inside the polygon, so that no sample of the boundary is nearest to it
C12_Witness ==
    /\ OneLakeDone(1)
    /\ \E h \in lake_hexes :
          \A g \in GridDisk(h, 1) :
              /\ g \in Range(hexagons)
              /\ StrictlyInside(Centre(g), lakes[1].coordinates[1])

\* the candidates nearest to the sample j of the edge k of the ring
NearestAt(ring, k, j, cands) ==
    LET a == EdgeOf(ring, k)[1]
        b == EdgeOf(ring, k)[2]
        n == RingNumPoints(a, b, AvgEdge)
        lon == n * a[1] + j * (b[1] - a[1])
        lat == n * a[2] + j * (b[2] - a[2])
    IN  {t \in Range(cands) :
            \A u \in Range(cands) : Dist2(t, lon, lat, n) <= Dist2(u, lon, lat, n)}

\* the sample indices of the edge k of the ring
SampleIndices(ring, k) ==
    0..RingNumPoints(EdgeOf(ring, k)[1], EdgeOf(ring, k)[2], AvgEdge)

\* the tiles on a hex-grid path between a tile of A and another tile of B at
\* most 3 away
PathsBetween(A, B) ==
    UNION {UNION GridPathCells(p[1], p[2]) :
              p \in {q \in A \X B : q[1] # q[2] /\ GridDistance(q[1], q[2]) <= 3}}

\* the tiles nearest to a sample of the ring, and the tiles on a hex-grid path
\* between the tiles of two consecutive samples that are at most 3 apart
TouchedByRing(ring, cands) ==
    UNION {UNION {NearestAt(ring, k, j, cands) \cup
                    (IF j = 0 THEN {}
                     ELSE PathsBetween(NearestAt(ring, k, j - 1, cands),
                                       NearestAt(ring, k, j, cands))) :
                  j \in SampleIndices(ring, k)} :
           k \in 1..Len(ring)}

\* the one lake was not passed over
Traced == ~LakeSkipped(lakes[1])

\* the candidates of the one lake
CandidatesOfLake == CandidatesOf(hexagons, LakeBounds(lakes[1].coordinates[1]))

\* C13: for a polygon without holes, no tile whose centre is strictly outside
\* the polygon is in the set returned.
C13_OutsideExcluded ==
    OneLakeDone(1) =>
        \A h \in lake_hexes : ~StrictlyOutside(Centre(h), lakes[1].coordinates[1])

\* C13, amended: for a polygon without holes, a tile whose centre is strictly
\* outside the polygon is in the set returned only if the trace of the ring
\* touched it: it is nearest to a sample of the boundary or lies on a bridge
\* between the tiles of two consecutive samples.  The interior fill adds no
\* such tile.
C13_OutsideOnlyIfTouched ==
    OneLakeDone(1) =>
        {h \in lake_hexes : StrictlyOutside(Centre(h), lakes[1].coordinates[1])}
            \subseteq TouchedByRing(lakes[1].coordinates[1], CandidatesOfLake)

\* C13 witness: of the candidates with the centre strictly outside the
\* polygon one was returned and one was not, and a tile outside the tile set
\* and outside the polygon was returned as part of a bridge
C13_Witness ==
    /\ OneLakeDone(1)
    /\ \E h \in lake_hexes \cap Range(CandidatesOfLake) :
          StrictlyOutside(Centre(h), lakes[1].coordinates[1])
    /\ \E h \in Range(CandidatesOfLake) \ lake_hexes :
          StrictlyOutside(Centre(h), lakes[1].coordinates[1])
    /\ \E h \in lake_hexes \ Range(hexagons) :
          StrictlyOutside(Centre(h), lakes[1].coordinates[1])

\* one lake, a polygon with holes, has been snapped
OneLakeWithHolesDone ==
    /\ lpc = "done"
    /\ Len(lakes) = 1
    /\ lakes[1].type = "Polygon"
    /\ Len(lakes[1].coordinates) >= 2

\* the centre of h is strictly inside one of the rings after the first
InSomeHole(h) ==
    \E k \in 2..Len(lakes[1].coordinates) :
        StrictlyInside(Centre(h), lakes[1].coordinates[k])

\* the centre of h is strictly inside the first ring and strictly outside
\* every other ring
InLakeProper(h) ==
    /\ StrictlyInside(Centre(h), lakes[1].coordinates[1])
    /\ \A k \in 2..Len(lakes[1].coordinates) :
           StrictlyOutside(Centre(h), lakes[1].coordinates[k])

\* the tiles the samples of the ring map to
SampledByRing(ring, cands) ==
    UNION {{FindNearestHexFast(n * EdgeOf(ring, k)[1][1]
                                   + j * (EdgeOf(ring, k)[2][1] - EdgeOf(ring, k)[1][1]),
                               n * EdgeOf(ring, k)[1][2]
                                   + j * (EdgeOf(ring, k)[2][2] - EdgeOf(ring, k)[1][2]),
                               n, cands) : j \in 0..n} :
           <<k, n>> \in {<<e, Cardinality(SampleIndices(ring, e)) - 1>> : e \in 1..Len(ring)}}

\* tracing a hole ring adds no tile; the tiles the exterior ring's samples map
\* to and the tiles with the centre inside the exterior ring and outside every
\* hole are returned
HoleTraceAndFill ==
    /\ [][(lpc = "sample" /\ ri > 1) => lake_hexes' = lake_hexes]_vars
    /\ [](OneLakeWithHolesDone =>
            /\ Traced => SampledByRing(lakes[1].coordinates[1], CandidatesOfLake)
                             \subseteq lake_hexes
            /\ \A h \in Range(hexagons) : InLakeProper(h) => h \in lake_hexes)

\* C14: for a lake of one exterior ring and hole rings inside it, no tile
\* whose centre falls inside a hole ring is returned and tracing a hole ring
\* adds no tile; the tiles touched by the exterior ring and the tiles with the
\* centre inside the exterior ring and outside every hole are returned.
C14_HolesExcluded ==
    /\ HoleTraceAndFill
    /\ [](OneLakeWithHolesDone => \A h \in lake_hexes : ~InSomeHole(h))

\* C14, amended: the same, but a tile whose centre falls inside a hole ring is
\* returned if, and only if, the trace of the exterior ring touched it.
C14_HolesExcludedFromFill ==
    /\ HoleTraceAndFill
    /\ [](OneLakeWithHolesDone =>
            {h \in lake_hexes : InSomeHole(h)}
                \subseteq TouchedByRing(lakes[1].coordinates[1], CandidatesOfLake))

\* C14 witness: a lake with a hole was snapped; a tile with the centre in the
\* hole was left out, and a tile inside the exterior ring and outside the
\* hole that the trace of the exterior ring did not touch was returned
C14_Witness ==
    /\ OneLakeWithHolesDone
    /\ \E h \in Range(hexagons) \ lake_hexes : InSomeHole(h)
    /\ \E h \in lake_hexes \ TouchedByRing(lakes[1].coordinates[1], CandidatesOfLake) :
          InLakeProper(h)

\* the tiles snap_rivers_to_hexes maps the samples of the ring's edges to,
\* each edge taken as a segment and the candidates as the tiles to search
SampledAsLine(ring, cands) ==
    UNION {{FindNearestHexFast(n * EdgeOf(ring, k)[1][1]
                                   + j * (EdgeOf(ring, k)[2][1] - EdgeOf(ring, k)[1][1]),
                               n * EdgeOf(ring, k)[1][2]
                                   + j * (EdgeOf(ring, k)[2][2] - EdgeOf(ring, k)[1][2]),
                               n, cands) :
              j \in {i \in 0..n :
                        InBounds(env,
                                 n * EdgeOf(ring, k)[1][1]
                                     + i * (EdgeOf(ring, k)[2][1] - EdgeOf(ring, k)[1][1]),
                                 n * EdgeOf(ring, k)[1][2]
                                     + i * (EdgeOf(ring, k)[2][2] - EdgeOf(ring, k)[1][2]),
                                 n)}} :
           <<k, n>> \in {<<e, NumPoints(EdgeOf(ring, e)[1], EdgeOf(ring, e)[2], AvgEdge)>> :
                            e \in 1..Len(ring)}}

\* C15: trace_ring traces a ring edge as snap_rivers_to_hexes traces a
\* segment: it takes max(10, floor(length / (0.3 * edge))) sample steps, it
\* passes over a sample outside the envelope of the tiles and clears prev_hex
\* there, it bridges by the same rule, and so the samples of a ring touch the
\* tiles the samples of the same edges touch as segments.
C15_TraceAsLineSnapper ==
    /\ [](lpc = "sample" => num_points = NumPoints(E1, E2, AvgEdge))
    /\ [][(/\ lpc = "sample"
           /\ sj <= num_points
           /\ ~InBounds(env, RingSampleLon(sj), RingSampleLat(sj), num_points))
          => (prev_hex' = None /\ lake_hexes' = lake_hexes)]_vars
    /\ [][(/\ lpc = "sample"
           /\ sj <= num_points
           /\ ri = 1
           /\ InBounds(env, RingSampleLon(sj), RingSampleLat(sj), num_points)
           /\ prev_hex # None
           /\ prev_hex # prev_hex')
          => \E bridge_hexes \in BridgeHexes(prev_hex, prev_hex') :
                 lake_hexes' = lake_hexes \cup {prev_hex'} \cup bridge_hexes]_vars
    /\ []((OneLakeDone(1) /\ Traced) =>
            SampledByRing(lakes[1].coordinates[1], CandidatesOfLake)
                = SampledAsLine(lakes[1].coordinates[1], CandidatesOfLake))

(***************************************************************************)
(* SpatialIndex: find_nearest_hex_fast, called on its own                  *)
(***************************************************************************)
\* faulty variant of Closer: the comparison turned round
Farther(d, m) == m = Inf \/ d > m[1]

\* d < min_dist
Closer(d, m) == m = Inf \/ d < m[1]

\* one iteration of `for hex_id, (h_lat, h_lon) in hex_positions.items()`
ScanTile ==
    /\ npc = "scan"
    /\ ni <= Len(hexagons)
    /\ LET d == Dist2(hexagons[ni], pt_lonlat[1], pt_lonlat[2], 1)
       IN  IF Closer(d, min_dist)
           THEN min_dist' = <<d>> /\ nearest_hex' = hexagons[ni]
           ELSE UNCHANGED <<min_dist, nearest_hex>>
    /\ ni' = ni + 1
    /\ UNCHANGED <<hexagons, pt_lonlat, npc>>
    /\ UNCHANGED notNearest

\* the for-loop is over: return nearest
ReturnNearest ==
    /\ npc = "scan"
    /\ ni > Len(hexagons)
    /\ npc' = "done"
    /\ UNCHANGED <<hexagons, pt_lonlat, min_dist, nearest_hex, ni>>
    /\ UNCHANGED notNearest

RECURSIVE Reversed(_)
\* the list q from its end
Reversed(q) == IF q = <<>> THEN <<>> ELSE Append(Reversed(Tail(q)), Head(q))

\* hex_positions: no tile, the tile sets of the rivers and of the lakes, in
\* their order and from the end
IndexedTiles ==
    {<<>>} \cup {ListOf(S) : S \in TileSets \cup LakeTileSets}
           \cup {Reversed(ListOf(S)) : S \in TileSets \cup LakeTileSets}

InitNearest ==
    /\ RepairIdle
    /\ grid = <<>>
    /\ req = <<>>
    /\ rings = 0
    /\ hex_biomes = <<>>
    /\ tpc = "idle"
    /\ rivers = <<>>
    /\ env = <<>>
    /\ water_hexes = {}
    /\ num_points = 0
    /\ fi = 0
    /\ si = 0
    /\ sj = 0
    /\ prev_hex = None
    /\ rpc = "idle"
    /\ lakes = <<>>
    /\ candidates = <<>>
    /\ lake_hexes = {}
    /\ li = 0
    /\ ri = 0
    /\ lpc = "idle"
    /\ h3_fail = NoFail
    /\ hexagons \in IndexedTiles
    /\ pt_lonlat \in Points \cup LakePoints \cup PondPoints
    /\ min_dist = Inf
    /\ nearest_hex = None
    /\ ni = 1
    /\ npc = "scan"
    /\ ServerIdle

NextNearest == ScanTile \/ ReturnNearest

\* one call of find_nearest_hex_fast
SpecNearest == InitNearest /\ [][NextNearest]_vars

\* C16: over a set of candidates that is not empty find_nearest_hex_fast
\* returns a key of the set whose squared distance
\* ((lon_t - lon) * k)^2 + (lat_t - lat)^2 is at most that of every other
\* candidate; over an empty set it returns no tile.
C16_NearestIsLeast ==
    npc = "done" =>
        IF hexagons = <<>> THEN nearest_hex = None
        ELSE /\ nearest_hex \in Range(hexagons)
             /\ \A u \in Range(hexagons) :
                    KNum * KNum * (CellLon(nearest_hex) - pt_lonlat[1]) * (CellLon(nearest_hex) - pt_lonlat[1])
                        + KDen * KDen * (CellLat(nearest_hex) - pt_lonlat[2]) * (CellLat(nearest_hex) - pt_lonlat[2])
                    <= KNum * KNum * (CellLon(u) - pt_lonlat[1]) * (CellLon(u) - pt_lonlat[1])
                        + KDen * KDen * (CellLat(u) - pt_lonlat[2]) * (CellLat(u) - pt_lonlat[2])

\* C16 witness: the scan returned a tile that is neither the first nor the
\* last of the list, for a point that is not the centre of a tile
C16_Witness ==
    /\ npc = "done"
    /\ Len(hexagons) > 2
    /\ nearest_hex \in Range(hexagons) \ {hexagons[1], hexagons[Len(hexagons)]}
    /\ pt_lonlat # Centre(nearest_hex)

(***************************************************************************)
(* The pipeline of the main block: get_biomes (fill_buildup_and_water),    *)
(* map_to_hexagons, snap_rivers_to_hexes, snap_lakes_to_hexes, run twice   *)
(* on the same inputs                                                      *)
(***************************************************************************)
\* Every grid shape h x w with h * w <= PipelineMaxCells is run through the
\* pipeline.
PipelineMaxCells == 3

\* map_to_hexagons on the grid get_biomes returned
MapRepaired ==
    /\ pc = "done"
    /\ tpc = "call"
    /\ LET resolution == ResolutionOf(req.hex_size_m)
           center_hex == LatLngToCell(req.lat, req.lon, resolution)
           rgs        == RingsOf(req.area_size_m, resolution)
       IN  /\ rings' = rgs
           /\ hex_biomes' = HexBiomesOf(result, req, GridDisk(center_hex, rgs))
    /\ tpc' = "done"
    /\ UNCHANGED <<grid, req>>
    /\ UNCHANGED notTess

\* snap_rivers_to_hexes(rivers, hex_biomes.keys(), lat_corr) is called
CallSnapRivers ==
    /\ tpc = "done"
    /\ rpc = "idle"
    /\ hexagons' = ListOf(DOMAIN hex_biomes)
    /\ env' = Envelope(ListOf(DOMAIN hex_biomes))
    /\ water_hexes' = {}
    /\ fi' = 1
    /\ si' = 1
    /\ rpc' = "segment"
    /\ UNCHANGED <<rivers, num_points, sj, prev_hex>>
    /\ UNCHANGED notRiver

\* snap_lakes_to_hexes(lakes, hex_biomes.keys(), lat_corr) is called
CallSnapLakes ==
    /\ rpc = "done"
    /\ lpc = "idle"
    /\ li' = 1
    /\ lpc' = "lake"
    /\ UNCHANGED <<hexagons, env, num_points, si, sj, prev_hex>>
    /\ UNCHANGED <<lakes, candidates, lake_hexes, ri>>
    /\ UNCHANGED notLake

\* what one run of the pipeline hands to export_to_json
Exported ==
    [hex_biomes |-> hex_biomes, river_hexes |-> water_hexes, lake_hexes |-> lake_hexes]

\* the pipeline is run again on the same inputs
RunAgain ==
    /\ lpc = "done"
    /\ run = 1
    /\ run' = 2
    /\ first_result' = Exported
    /\ result' = grid
    /\ to_fill' = ToFillOf(grid)
    /\ todo' = {}
    /\ filled' = {}
    /\ pc' = "while"
    /\ rings' = 0
    /\ hex_biomes' = <<>>
    /\ tpc' = "call"
    /\ hexagons' = <<>>
    /\ env' = <<>>
    /\ water_hexes' = {}
    /\ num_points' = 0
    /\ fi' = 0
    /\ si' = 0
    /\ sj' = 0
    /\ prev_hex' = None
    /\ rpc' = "idle"
    /\ candidates' = <<>>
    /\ lake_hexes' = {}
    /\ li' = 0
    /\ ri' = 0
    /\ lpc' = "idle"
    /\ UNCHANGED <<grid, req, rivers, lakes, h3_fail, nearestVars, serverVars>>

\* a request for a disk of one ring of the smallest tiles
PipelineRequests ==
    {rq \in Requests :
        /\ rq.hex_size_m = 1
        /\ RingsOf(rq.area_size_m, ResolutionOf(rq.hex_size_m)) = 1
        /\ <<rq.lat, rq.lon>> = <<0, 0>>
        /\ rq.lat_max = 30}

\* a river that leaves the tiles, and one more segment outside
PipelineRivers == {<<[coordinates |-> <<<<0, 0>>, <<76, 0>>, <<90, -30>>>>]>>}

\* a lake outside the tiles and a pond with a hole
PipelineLakes ==
    {<<Polygon(<<<<<<200, 0>>, <<300, 0>>, <<250, 40>>>>>>),
       Polygon(<<<<<<-20, -10>>, <<25, -8>>, <<0, 25>>>>,
                 <<<<-2, -2>>, <<2, -2>>, <<0, 3>>>>>>)>>}

InitPipeline ==
    /\ grid \in InputGrids(PipelineMaxCells)
    /\ result = grid
    /\ to_fill = ToFillOf(grid)
    /\ todo = {}
    /\ filled = {}
    /\ pc = "while"
    /\ run = 1
    /\ first_result = <<>>
    /\ req \in PipelineRequests
    /\ rings = 0
    /\ hex_biomes = <<>>
    /\ tpc = "call"
    /\ hexagons = <<>>
    /\ rivers \in PipelineRivers
    /\ env = <<>>
    /\ water_hexes = {}
    /\ num_points = 0
    /\ fi = 0
    /\ si = 0
    /\ sj = 0
    /\ prev_hex = None
    /\ rpc = "idle"
    /\ lakes \in PipelineLakes
    /\ candidates = <<>>
    /\ lake_hexes = {}
    /\ li = 0
    /\ ri = 0
    /\ lpc = "idle"
    /\ h3_fail = NoFail
    /\ NearestIdle
    /\ ServerIdle

NextPipelineTwice ==
    \/ BeginPass
    \/ VisitCell
    \/ EndPass
    \/ Return
    \/ MapRepaired
    \/ CallSnapRivers
    \/ NextRiver
    \/ CallSnapLakes
    \/ NextLake
    \/ RunAgain

\* the pipeline, run twice on the same inputs
SpecPipelineTwice == InitPipeline /\ [][NextPipelineTwice]_vars

\* C17: the second run of the pipeline on the same inputs hands over the
\* tile-to-label mapping, the river tiles and the lake tiles of the first run.
C17_PipelineDeterministic ==
    (run = 2 /\ lpc = "done") => Exported = first_result

(***************************************************************************)
(* The two snappers, called a second time with their input collections in  *)
(* another order                                                           *)
(***************************************************************************)
\* the list q, or q from its end
Permuted(q, reverse) == IF reverse THEN Reversed(q) ELSE q

\* what the two snappers returned
Snapped == [river_hexes |-> water_hexes, lake_hexes |-> lake_hexes]

\* the snappers are called again: the tiles, the lines and the lakes are the
\* same, each enumerated in its order or from its end
RunPermuted ==
    /\ lpc = "done"
    /\ run = 1
    /\ run' = 2
    /\ first_result' = Snapped
    /\ \E ph \in BOOLEAN, pr \in BOOLEAN, pl \in BOOLEAN :
          /\ hexagons' = Permuted(hexagons, ph)
          /\ rivers' = Permuted(rivers, pr)
          /\ lakes' = Permuted(lakes, pl)
    /\ water_hexes' = {}
    /\ num_points' = 0
    /\ fi' = 1
    /\ si' = 1
    /\ sj' = 0
    /\ prev_hex' = None
    /\ rpc' = "segment"
    /\ candidates' = <<>>
    /\ lake_hexes' = {}
    /\ li' = 0
    /\ ri' = 0
    /\ lpc' = "idle"
    /\ UNCHANGED <<grid, result, to_fill, todo, filled, pc, tessVars, env, h3_fail, nearestVars, serverVars>>

\* lines for the permuted runs: along the border of two tiles, across the
\* tiles, and out of them
PermutedLines ==
    { <<<<19, -5>>, <<19, 5>>>>,
      <<<<-30, -20>>, <<30, 20>>>>,
      <<<<0, 0>>, <<90, -30>>, <<95, -30>>>> }

\* lakes for the permuted runs: a pond, a lake with a hole and a lake away
\* from the tiles
PermutedLakes ==
    { Polygon(<<<<<<-20, -10>>, <<25, -8>>, <<0, 25>>>>>>),
      Polygon(<<Rect(30, 20), Rect(10, 10)>>),
      Polygon(<<<<<<200, 0>>, <<300, 0>>, <<250, 40>>>>>>) }

InitPermuted ==
    /\ grid = <<>>
    /\ result = <<>>
    /\ to_fill = {}
    /\ todo = {}
    /\ filled = {}
    /\ pc = "idle"
    /\ run = 1
    /\ first_result = <<>>
    /\ req = <<>>
    /\ rings = 0
    /\ hex_biomes = <<>>
    /\ tpc = "idle"
    /\ hexagons \in {ListOf(GridDisk(SnapCenter, 1)), ListOf(GridDisk(SnapCenter, 2))}
    /\ rivers \in {<<[coordinates |-> a], [coordinates |-> b]>> :
                      a \in PermutedLines, b \in PermutedLines}
    /\ env = Envelope(hexagons)
    /\ water_hexes = {}
    /\ num_points = 0
    /\ fi = 1
    /\ si = 1
    /\ sj = 0
    /\ prev_hex = None
    /\ rpc = "segment"
    /\ lakes \in {<<a, b>> : a \in PermutedLakes, b \in PermutedLakes}
    /\ candidates = <<>>
    /\ lake_hexes = {}
    /\ li = 0
    /\ ri = 0
    /\ lpc = "idle"
    /\ h3_fail = NoFail
    /\ NearestIdle
    /\ ServerIdle

NextPermuted == NextRiver \/ CallSnapLakes \/ NextLake \/ RunPermuted

\* the snappers, called twice on the same collections in two orders
SpecPermuted == InitPermuted /\ [][NextPermuted]_vars

\* C18: with the tiles, the lines and the lakes enumerated in another order
\* snap_rivers_to_hexes and snap_lakes_to_hexes return the sets they returned
\* before.
C18_OrderIndependent ==
    (run = 2 /\ lpc = "done") => Snapped = first_result

(***************************************************************************)
(* The two snappers with library calls that raise                          *)
(***************************************************************************)
\* the pairs of cells around the tile sets with the cell x in them
PairsAt(x) == {{x, y} : y \in GridDisk(SnapCenter, 2) \ {x}}

\* the library raises for no pair; h3.grid_distance, or h3.grid_path_cells,
\* raises for the pairs with one cell in them
FailChoices ==
    {NoFail} \cup
    UNION {{[dist |-> PairsAt(x), path |-> {}], [dist |-> {}, path |-> PairsAt(x)]} :
              x \in {Tile(1, 0), Tile(-2, 0)}}

\* vertices of the lines
FailPoints == {<<-76, 0>>, <<76, 0>>, <<0, 0>>, <<90, -30>>}

\* a lake away from the tiles and a lake around them
FailLakes ==
    {<<Polygon(<<<<<<200, 0>>, <<300, 0>>, <<250, 40>>>>>>),
       Polygon(<<<<<<-80, -50>>, <<80, -50>>, <<0, 50>>>>, Rect(10, 10)>>)>>}

InitFail ==
    /\ RepairIdle
    /\ grid = <<>>
    /\ req = <<>>
    /\ rings = 0
    /\ hex_biomes = <<>>
    /\ tpc = "idle"
    /\ hexagons \in {ListOf(S) : S \in TileSets}
    /\ rivers \in {<<[coordinates |-> <<a, b>>]>> : a \in FailPoints, b \in FailPoints}
    /\ env = Envelope(hexagons)
    /\ water_hexes = {}
    /\ num_points = 0
    /\ fi = 1
    /\ si = 1
    /\ sj = 0
    /\ prev_hex = None
    /\ rpc = "segment"
    /\ lakes \in FailLakes
    /\ candidates = <<>>
    /\ lake_hexes = {}
    /\ li = 0
    /\ ri = 0
    /\ lpc = "idle"
    /\ h3_fail \in FailChoices
    /\ NearestIdle
    /\ ServerIdle

NextFail == NextRiver \/ CallSnapLakes \/ NextLake

\* one call of each snapper, the library raising for some pairs of cells
SpecFail == InitFail /\ [][NextFail]_vars

\* computing the hex-grid distance of a and b raises, or the distance is at
\* most 3 and computing the path raises
Raises(a, b) ==
    \/ {a, b} \in h3_fail.dist
    \/ GridDistance(a, b) <= 3 /\ {a, b} \in h3_fail.path

\* the tile the sample j of the running ring edge maps to
TileOfRingSample(j) ==
    FindNearestHexFast(RingSampleLon(j), RingSampleLat(j), num_points, candidates)

\* C19: when the distance or the path between the tiles of two consecutive
\* samples cannot be computed, the iteration adds the sample's tile and
\* nothing else and the loop goes on with the next sample; the tile of the
\* sample before stays in the result, and no step of a snapper takes a tile
\* out of its result.
C19_FailureMeansNoBridge ==
    /\ [][(/\ rpc = "sample"
           /\ sj <= num_points
           /\ SampleInBounds(sj)
           /\ prev_hex # None
           /\ prev_hex # TileOfSample(sj)
           /\ Raises(prev_hex, TileOfSample(sj)))
          => /\ water_hexes' = water_hexes \cup {TileOfSample(sj)}
             /\ prev_hex \in water_hexes'
             /\ prev_hex' = TileOfSample(sj)
             /\ rpc' = "sample"
             /\ sj' = sj + 1]_vars
    /\ [][(/\ lpc = "sample"
           /\ sj <= num_points
           /\ ri = 1
           /\ prev_hex # None
           /\ prev_hex # TileOfRingSample(sj)
           /\ Raises(prev_hex, TileOfRingSample(sj)))
          => /\ lake_hexes' = lake_hexes \cup {TileOfRingSample(sj)}
             /\ prev_hex \in lake_hexes'
             /\ prev_hex' = TileOfRingSample(sj)
             /\ lpc' = "sample"
             /\ sj' = sj + 1]_vars
    /\ [][water_hexes \subseteq water_hexes' /\ lake_hexes \subseteq lake_hexes']_vars

\* C19 witness: the exterior ring of a lake is being traced after the river
\* was snapped; the last two samples mapped to tiles 2 or 3 apart for which
\* the path computation raises, the two tiles are in the result and no path
\* between them is
C19_Witness ==
    /\ lpc = "sample"
    /\ ri = 1
    /\ sj >= 2
    /\ water_hexes # {}
    /\ LET a == TileOfRingSample(sj - 2)
           b == TileOfRingSample(sj - 1)
       IN  /\ GridDistance(a, b) \in 2..3
           /\ {a, b} \in h3_fail.path
           /\ {a, b} \subseteq lake_hexes
           /\ \A path \in GridPathCells(a, b) : ~(path \subseteq lake_hexes)

(***************************************************************************)
(* map_to_hexagons, called with any tile size                              *)
(***************************************************************************)
\* tile sizes that are no size
NonPositiveSizes == {0, -3}

\* the requests of the Tessellator, and the same with a tile size of 0 or less
AnyRequests ==
    Requests \cup
    {[rq EXCEPT !.hex_size_m = z] :
        rq \in {r \in Requests : r.hex_size_m < 2}, z \in NonPositiveSizes}

InitTessAny ==
    /\ RepairIdle
    /\ RiverIdle
    /\ LakeIdle
    /\ grid \in TessGrids
    /\ req \in AnyRequests
    /\ rings = 0
    /\ hex_biomes = <<>>
    /\ tpc = "call"

\* one call of map_to_hexagons with any tile size
SpecTessAny == InitTessAny /\ [][NextTess]_vars

\* C20: a call with hex_size_m <= 0 ends in an error and returns no tile.
C20_NonPositiveSizeRejected ==
    (req.hex_size_m <= 0 /\ tpc # "call") => (tpc = "error" /\ hex_biomes = <<>>)

(***************************************************************************)
(* Lines of fewer than two vertices and rings of fewer than three          *)
(***************************************************************************)
\* lines of no and of one vertex, and a line of three
ShortLines ==
    { <<>>,
      <<<<0, 0>>>>,
      <<<<0, 0>>, <<90, -30>>, <<95, -30>>>> }

\* lakes whose main ring or hole has fewer than three vertices: one vertex on
\* a tile centre, two vertices along a row of centres, a hole of two vertices,
\* an empty hole, an empty main ring; and a lake away from the tiles
ShortRingLakes ==
    { Polygon(<<<<<<0, 0>>>>>>),
      Polygon(<<<<<<-40, 0>>, <<40, 0>>>>>>),
      Polygon(<<Rect(30, 20), <<<<0, 0>>, <<5, 5>>>>>>),
      Polygon(<<Rect(30, 20), <<>>>>),
      Polygon(<<<<>>>>),
      Polygon(<<<<<<200, 0>>, <<300, 0>>, <<250, 40>>>>>>) }

InitShort ==
    /\ RepairIdle
    /\ grid = <<>>
    /\ req = <<>>
    /\ rings = 0
    /\ hex_biomes = <<>>
    /\ tpc = "idle"
    /\ hexagons = ListOf(GridDisk(SnapCenter, 1))
    /\ rivers \in {<<[coordinates |-> a], [coordinates |-> b]>> :
                      a \in ShortLines, b \in ShortLines}
    /\ env = Envelope(hexagons)
    /\ water_hexes = {}
    /\ num_points = 0
    /\ fi = 1
    /\ si = 1
    /\ sj = 0
    /\ prev_hex = None
    /\ rpc = "segment"
    /\ lakes \in {<<a, b>> : a \in ShortRingLakes, b \in ShortRingLakes}
    /\ candidates = <<>>
    /\ lake_hexes = {}
    /\ li = 0
    /\ ri = 0
    /\ lpc = "idle"
    /\ h3_fail = NoFail
    /\ NearestIdle
    /\ ServerIdle

NextShort == NextRiver \/ CallSnapLakes \/ NextLake \/ MinRaises

\* snap_rivers_to_hexes, then snap_lakes_to_hexes, on short lines and rings
SpecShort == InitShort /\ [][NextShort]_vars

\* the line has fewer than two vertices
ShortLine(feature) == Len(feature.coordinates) < 2

\* the polygon has a ring of fewer than three vertices
ShortRing(lake) ==
    /\ lake.type = "Polygon"
    /\ \E k \in 1..Len(lake.coordinates) : Len(lake.coordinates[k]) < 3

\* C21: a line with fewer than 2 vertices or a ring with fewer than 3 ends the
\* call with an error as soon as the loop reaches it: the loop of
\* snap_rivers_to_hexes never gets past such a line, and the loop of
\* snap_lakes_to_hexes neither traces such a lake nor gets past it.
C21_ShortGeometryRaises ==
    /\ \A k \in 1..Len(rivers) : ShortLine(rivers[k]) => fi <= k
    /\ \A k \in 1..Len(lakes) :
          ShortRing(lakes[k]) => /\ li <= k
                                 /\ li = k => lpc \in {"lake", "error"}

(***************************************************************************)
(* Tessellator: bounding boxes of any shape                                *)
(***************************************************************************)
\* boxes with south >= north or west >= east: both swapped, south above north,
\* west right of east, no height, no width
BadBBoxes ==
    { [lat_min |-> 30, lat_max |-> -30, lon_min |-> 45, lon_max |-> -45],
      [lat_min |-> 30, lat_max |-> -30, lon_min |-> -45, lon_max |-> 45],
      [lat_min |-> -30, lat_max |-> 30, lon_min |-> 45, lon_max |-> -45],
      [lat_min |-> 10, lat_max |-> 10, lon_min |-> -45, lon_max |-> 45],
      [lat_min |-> -30, lat_max |-> 30, lon_min |-> 7, lon_max |-> 7] }

\* the requests of the Tessellator, and the same with the boxes of BadBBoxes
BoxRequests ==
    Requests \cup
    {[rq EXCEPT !.lat_min = b.lat_min, !.lat_max = b.lat_max,
                !.lon_min = b.lon_min, !.lon_max = b.lon_max] :
        rq \in Requests, b \in BadBBoxes}

InitTessBox ==
    /\ RepairIdle
    /\ RiverIdle
    /\ LakeIdle
    /\ grid \in TessGrids
    /\ req \in BoxRequests
    /\ rings = 0
    /\ hex_biomes = <<>>
    /\ tpc = "call"

NextTessBox == MapToHexagons \/ DivisionRaises

\* one call of map_to_hexagons with any bounding box
SpecTessBox == InitTessBox /\ [][NextTessBox]_vars

\* south >= north or west >= east
InvalidBox(rq) == rq.lat_min >= rq.lat_max \/ rq.lon_min >= rq.lon_max

\* C22: a call with a bounding box of south >= north or west >= east ends in
\* an error and returns no tile map.
C22_InvalidBoxRejected ==
    (InvalidBox(req) /\ tpc # "call") => (tpc = "error" /\ hex_biomes = <<>>)

(***************************************************************************)
(* Market: src/api/market.py                                               *)
(* A request is handled in up to two steps: the read of the order by       *)
(* db_get, on a connection of its own, and the transaction on              *)
(* inventory_item. The rows of inventory_item the transaction reads are    *)
(* read FOR UPDATE and stay locked until it ends, so the transaction is    *)
(* one step; db_update and db_close run inside the transaction block on a  *)
(* connection of their own and are part of that step. The flags of a row   *)
(* of market_order are named as src/api/market.py names them.              *)
(***************************************************************************)
\* the most rows market_order is given
MaxOrders == 2

\* the most requests the clients send
MaxRequests == 3

Users == {"u1", "u2"}

Materials == {"WOOD", "STONE"}

\* MarketOrderCreate.amount: gt=0
Amounts == {1, 2}

\* MarketOrderCreate.total_price: ge=0
Prices == {1, 2}

Clients == {1, 2}

OrderIds == 1..MaxOrders

\* the bodies of POST /market/orders
OrderCreates ==
    [is_buy_order : BOOLEAN, resource_type : Materials, amount : Amounts,
     total_price : Prices]

\* the bodies of PATCH /market/orders/{order_id}: a field left out is None.
\* The bodies of the model set one field, the resource and the amount, or none
OrderUpdates ==
    {[f \in fields |-> full[f]] :
        full \in [resource_type : Materials, amount : Amounts, total_price : Prices],
        fields \in {{}, {"resource_type"}, {"amount"}, {"total_price"},
                    {"resource_type", "amount"}}}

\* data.<field> is not None
Given(data, field) == field \in DOMAIN data

\* no request is being handled for the client
Idle == [pc |-> "idle"]

\* the row `SELECT id, quantity FROM inventory_item WHERE user_id = $1 AND
\* resource_type = $2` finds
HasRow(inv, user_id, res) == <<user_id, res>> \in DOMAIN inv

\* not (not row or row["quantity"] < n)
Covers(inv, user_id, res, n) ==
    IF HasRow(inv, user_id, res) THEN inv[<<user_id, res>>] >= n ELSE FALSE

\* UPDATE inventory_item SET quantity = quantity - $1 WHERE id = $2
Deduct(inv, user_id, res, n) == [inv EXCEPT ![<<user_id, res>>] = @ - n]

\* INSERT INTO inventory_item ... ON CONFLICT (user_id, resource_type) DO UPDATE
\* SET quantity = inventory_item.quantity + EXCLUDED.quantity; and the
\* UPDATE ... quantity + $1 of a row that exists, with the plain INSERT of one
\* that does not
Upsert(inv, user_id, res, n) ==
    IF HasRow(inv, user_id, res)
    THEN [inv EXCEPT ![<<user_id, res>>] = @ + n]
    ELSE inv @@ (<<user_id, res>> :> n)

\* db_get: the row of market_order, or None
GetOrder(orders, order_id) ==
    IF order_id \in DOMAIN orders THEN orders[order_id] ELSE None

\* the client may send a request
CanSend(p) ==
    /\ sent < MaxRequests
    /\ request[p].pc = "idle"
    /\ serial => (p = 1 /\ \A q \in Clients : request[q].pc = "idle")

\* no response yet
NoResponse == [status |-> 0, detail |-> ""]

\* the response is sent and the handler is left
Respond(p, code, detail) ==
    /\ response' = [response EXCEPT ![p] = [status |-> code, detail |-> detail]]
    /\ request' = [request EXCEPT ![p] = Idle]

\* what create_order takes from whom: total_price MONEY for a BUY order, amount
\* of the resource for a SELL order
ReservedResource(data) == IF data.is_buy_order THEN "MONEY" ELSE data.resource_type

\* faulty variant of ReservedQuantity: the amount is taken for a BUY order too
ReservedAmountAlways(data) == data.amount

ReservedQuantity(data) == IF data.is_buy_order THEN data.total_price ELSE data.amount

\* create_order: POST /market/orders
CreateOrder ==
    \E p \in Clients, user_id \in Users, data \in OrderCreates :
        /\ CanSend(p)
        /\ order_seq < MaxOrders
        /\ sent' = sent + 1
        /\ IF ~Covers(inventory, user_id, ReservedResource(data), ReservedQuantity(data))
           THEN /\ Respond(p, 400, IF data.is_buy_order
                                    THEN "Insufficient MONEY for buy order"
                                    ELSE "Insufficient resource for sell order")
                /\ UNCHANGED <<inventory, market_order, order_seq>>
           ELSE /\ inventory' = Deduct(inventory, user_id, ReservedResource(data),
                                       ReservedQuantity(data))
                /\ order_seq' = order_seq + 1
                /\ market_order' =
                       market_order @@
                       ((order_seq + 1) :>
                           [user_id |-> user_id, is_buy_order |-> data.is_buy_order,
                            resource_type |-> data.resource_type, amount |-> data.amount,
                            total_price |-> data.total_price, is_open |-> TRUE])
                /\ Respond(p, 201, "")
        /\ UNCHANGED <<serial, start_inventory, building, now>>
        /\ UNCHANGED notServer

\* update_order, up to the transaction: db_get and the three checks
UpdateRead ==
    \E p \in Clients, user_id \in Users, order_id \in OrderIds, data \in OrderUpdates :
        /\ CanSend(p)
        /\ sent' = sent + 1
        /\ LET existing == GetOrder(market_order, order_id)
           IN  IF existing = None THEN Respond(p, 404, "Order not found")
               ELSE IF existing.user_id # user_id
               THEN Respond(p, 403, "Not authorized to modify this order")
               ELSE IF ~existing.is_open
               THEN Respond(p, 400, "Only open orders can be modified")
               ELSE /\ request' = [request EXCEPT ![p] =
                                      [pc |-> "update", user_id |-> user_id,
                                       order_id |-> order_id, data |-> data,
                                       existing |-> existing]]
                    /\ UNCHANGED response
        /\ UNCHANGED <<inventory, market_order, order_seq, serial, start_inventory>>
        /\ UNCHANGED <<building, now>>
        /\ UNCHANGED notServer

\* new_resource, new_amount, new_price
NewResource(existing, data) ==
    IF Given(data, "resource_type") THEN data.resource_type ELSE existing.resource_type

NewAmount(existing, data) == IF Given(data, "amount") THEN data.amount ELSE existing.amount

NewPrice(existing, data) ==
    IF Given(data, "total_price") THEN data.total_price ELSE existing.total_price

\* faulty variant of UpdateDelta: the whole new value is taken
UpdateDeltaWhole(new, old) == new

\* delta = new_amount - existing["amount"], price_delta = new_price -
\* existing["total_price"]
UpdateDelta(new, old) == new - old

\* the transaction of update_order on inventory_item: the status it raises (200
\* when it raises nothing) and the inventory it leaves; an exception rolls the
\* transaction back. `resource_row["id"]` of a row that is None raises TypeError
UpdateInventory(inv, user_id, existing, data) ==
    LET new_resource == NewResource(existing, data)
        new_amount   == NewAmount(existing, data)
        res   == IF existing.is_buy_order THEN "MONEY" ELSE new_resource
        delta == IF existing.is_buy_order
                 THEN UpdateDelta(NewPrice(existing, data), existing.total_price)
                 ELSE UpdateDelta(new_amount, existing.amount)
    IN  IF ~existing.is_buy_order /\ new_resource # existing.resource_type
        THEN IF ~Covers(inv, user_id, new_resource, new_amount)
             THEN [status |-> 400, inv |-> inv,
                   detail |-> "Insufficient resource after change"]
             ELSE [status |-> 200,
                   inv |-> Deduct(Upsert(inv, user_id, existing.resource_type,
                                         existing.amount),
                                  user_id, new_resource, new_amount)]
        ELSE IF delta = 0 THEN [status |-> 200, inv |-> inv]
        ELSE IF delta > 0
             THEN IF ~Covers(inv, user_id, res, delta)
                  THEN [status |-> 400, inv |-> inv,
                        detail |-> IF existing.is_buy_order
                                   THEN "Insufficient MONEY to raise price"
                                   ELSE "Insufficient resource to increase amount"]
                  ELSE [status |-> 200, inv |-> Deduct(inv, user_id, res, delta)]
        ELSE IF ~HasRow(inv, user_id, res)
        THEN [status |-> 500, inv |-> inv, detail |-> "Internal Server Error"]
        ELSE [status |-> 200, inv |-> Deduct(inv, user_id, res, delta)]

\* db_update: the row UPDATE market_order ... WHERE id = $ AND user_id = $ AND
\* the order is open RETURNING gives, or get_market_order when no field is set
UpdatedRow(orders, order_id, user_id, data) ==
    LET row == GetOrder(orders, order_id)
    IN  IF row = None THEN None
        ELSE IF DOMAIN data = {} THEN row
        ELSE IF row.user_id # user_id \/ ~row.is_open THEN None
        ELSE [row EXCEPT !.resource_type = NewResource(row, data),
                         !.amount = NewAmount(row, data),
                         !.total_price = NewPrice(row, data)]

\* update_order: the transaction, db_update and the response
UpdateTransact ==
    \E p \in Clients :
        /\ request[p].pc = "update"
        /\ LET rq == request[p]
               out == UpdateInventory(inventory, rq.user_id, rq.existing, rq.data)
               updated == UpdatedRow(market_order, rq.order_id, rq.user_id, rq.data)
           IN  IF out.status # 200
               THEN /\ Respond(p, out.status, out.detail)
                    /\ UNCHANGED <<inventory, market_order>>
               ELSE /\ inventory' = out.inv
                    /\ IF updated = None
                       THEN /\ Respond(p, 500, "Failed to update order")
                            /\ UNCHANGED market_order
                       ELSE /\ market_order' = [market_order EXCEPT ![rq.order_id] = updated]
                            /\ Respond(p, 200, "")
        /\ UNCHANGED <<order_seq, serial, sent, start_inventory, building, now>>
        /\ UNCHANGED notServer

\* delete_order, up to the transaction: db_get and the three checks
DeleteRead ==
    \E p \in Clients, user_id \in Users, order_id \in OrderIds :
        /\ CanSend(p)
        /\ sent' = sent + 1
        /\ LET existing == GetOrder(market_order, order_id)
           IN  IF existing = None THEN Respond(p, 404, "Order not found")
               ELSE IF ~existing.is_open
               THEN Respond(p, 400, "Only open orders can be deleted")
               ELSE IF existing.user_id # user_id
               THEN Respond(p, 403, "Not authorized to delete this order")
               ELSE /\ request' = [request EXCEPT ![p] =
                                      [pc |-> "delete", user_id |-> user_id,
                                       order_id |-> order_id, existing |-> existing]]
                    /\ UNCHANGED response
        /\ UNCHANGED <<inventory, market_order, order_seq, serial, start_inventory>>
        /\ UNCHANGED <<building, now>>
        /\ UNCHANGED notServer

\* faulty variant of DeleteRefund: nothing is given back
DeleteNoRefund(inv, order) == inv

\* delete_order: what the owner is given back, total_price MONEY for a BUY order
\* and amount of the resource for a SELL order
DeleteRefund(inv, order) ==
    IF order.is_buy_order
    THEN Upsert(inv, order.user_id, "MONEY", order.total_price)
    ELSE Upsert(inv, order.user_id, order.resource_type, order.amount)

\* delete_order: the transaction, which reads the order again FOR UPDATE
DeleteTransact ==
    \E p \in Clients :
        /\ request[p].pc = "delete"
        /\ LET rq == request[p]
               order == GetOrder(market_order, rq.order_id)
           IN  IF order = None THEN /\ Respond(p, 400, "Order cannot be deleted")
                                    /\ UNCHANGED <<inventory, market_order>>
               ELSE IF order.user_id # rq.user_id \/ ~order.is_open
               THEN /\ Respond(p, 400, "Order cannot be deleted")
                    /\ UNCHANGED <<inventory, market_order>>
               ELSE /\ inventory' = DeleteRefund(inventory, order)
                    /\ market_order' =
                           [k \in DOMAIN market_order \ {rq.order_id} |-> market_order[k]]
                    /\ Respond(p, 204, "")
        /\ UNCHANGED <<order_seq, serial, sent, start_inventory, building, now>>
        /\ UNCHANGED notServer

\* faulty variant of FillRejectsClosed: no order is rejected
FillRejectsNone(existing) == FALSE

\* `if not existing["is_open"]`
FillRejectsClosed(existing) == ~existing.is_open

\* fill_order, up to the transaction: db_get and the two checks
FillRead ==
    \E p \in Clients, user_id \in Users, order_id \in OrderIds :
        /\ CanSend(p)
        /\ sent' = sent + 1
        /\ LET existing == GetOrder(market_order, order_id)
           IN  IF existing = None THEN Respond(p, 404, "Order not found")
               ELSE IF FillRejectsClosed(existing)
               THEN Respond(p, 400, "Order is not open")
               ELSE /\ request' = [request EXCEPT ![p] =
                                      [pc |-> "fill", user_id |-> user_id,
                                       order_id |-> order_id, existing |-> existing]]
                    /\ UNCHANGED response
        /\ UNCHANGED <<inventory, market_order, order_seq, serial, start_inventory>>
        /\ UNCHANGED <<building, now>>
        /\ UNCHANGED notServer

\* faulty variant of FillTransfer: the owner of the order is given nothing
FillTransferFillerOnly(inv, existing, filler_user_id) ==
    IF existing.is_buy_order
    THEN Upsert(Deduct(inv, filler_user_id, existing.resource_type, existing.amount),
                filler_user_id, "MONEY", existing.total_price)
    ELSE Upsert(Deduct(inv, filler_user_id, "MONEY", existing.total_price),
                filler_user_id, existing.resource_type, existing.amount)

\* fill_order: the inventory the transaction leaves when the filler covers it.
\* A BUY order: the filler gives amount of the resource, is given total_price
\* MONEY, and the owner is given the resource. A SELL order: the filler gives
\* total_price MONEY, is given the resource, and the owner is given the MONEY
FillTransfer(inv, existing, filler_user_id) ==
    IF existing.is_buy_order
    THEN Upsert(Upsert(Deduct(inv, filler_user_id, existing.resource_type,
                              existing.amount),
                       filler_user_id, "MONEY", existing.total_price),
                existing.user_id, existing.resource_type, existing.amount)
    ELSE Upsert(Upsert(Deduct(inv, filler_user_id, "MONEY", existing.total_price),
                       filler_user_id, existing.resource_type, existing.amount),
                existing.user_id, "MONEY", existing.total_price)

\* what the filler gives
FillerGives(existing) ==
    IF existing.is_buy_order
    THEN [res |-> existing.resource_type, n |-> existing.amount]
    ELSE [res |-> "MONEY", n |-> existing.total_price]

\* db_close: UPDATE market_order SET the order closed WHERE id = $1 AND it is
\* open RETURNING: a row is returned
Closes(orders, order_id) ==
    IF order_id \in DOMAIN orders THEN orders[order_id].is_open ELSE FALSE

\* fill_order: the transaction, db_close and the response. `if not closed` is
\* tested after the transaction block is left, so the transfer is committed
\* whatever db_close returns
FillTransact ==
    \E p \in Clients :
        /\ request[p].pc = "fill"
        /\ LET rq == request[p]
               gives == FillerGives(rq.existing)
           IN  IF ~Covers(inventory, rq.user_id, gives.res, gives.n)
               THEN /\ Respond(p, 400, IF rq.existing.is_buy_order
                                        THEN "Seller lacks resource"
                                        ELSE "Buyer lacks MONEY")
                    /\ UNCHANGED <<inventory, market_order>>
               ELSE /\ inventory' = FillTransfer(inventory, rq.existing, rq.user_id)
                    /\ IF Closes(market_order, rq.order_id)
                       THEN /\ market_order' =
                                   [market_order EXCEPT ![rq.order_id].is_open = FALSE]
                            /\ Respond(p, 200, "")
                       ELSE /\ UNCHANGED market_order
                            /\ Respond(p, 400, "Unable to close order")
        /\ UNCHANGED <<order_seq, serial, sent, start_inventory, building, now>>
        /\ UNCHANGED notServer

\* the rows of inventory_item before the first request: the second has no row
\* for some resources
Inventories ==
    { (<<"u1", "MONEY">> :> 3) @@ (<<"u1", "WOOD">> :> 1) @@ (<<"u1", "STONE">> :> 0)
        @@ (<<"u2", "MONEY">> :> 1) @@ (<<"u2", "WOOD">> :> 3) @@ (<<"u2", "STONE">> :> 1),
      (<<"u1", "MONEY">> :> 2) @@ (<<"u1", "WOOD">> :> 2)
        @@ (<<"u2", "WOOD">> :> 1) @@ (<<"u2", "STONE">> :> 2) }

\* the other components are not running
PipelineIdle ==
    /\ RepairIdle
    /\ grid = <<>>
    /\ req = <<>>
    /\ rings = 0
    /\ hex_biomes = <<>>
    /\ tpc = "idle"
    /\ RiverIdle
    /\ lakes = <<>>
    /\ candidates = <<>>
    /\ lake_hexes = {}
    /\ li = 0
    /\ ri = 0
    /\ lpc = "idle"
    /\ h3_fail = NoFail
    /\ NearestIdle

InitMarket ==
    /\ PipelineIdle
    /\ inventory \in Inventories
    /\ start_inventory = inventory
    /\ market_order = <<>>
    /\ order_seq = 0
    /\ request = [p \in Clients |-> Idle]
    /\ response = [p \in Clients |-> NoResponse]
    /\ serial = TRUE
    /\ sent = 0
    /\ building = <<>>
    /\ now = 0

NextMarket ==
    \/ CreateOrder
    \/ UpdateRead
    \/ UpdateTransact
    \/ DeleteRead
    \/ DeleteTransact
    \/ FillRead
    \/ FillTransact

\* the market endpoints, the requests sent one at a time
SpecMarket == InitMarket /\ [][NextMarket]_vars

(***************************************************************************)
(* Claims about the market                                                 *)
(***************************************************************************)
\* the step creates the order o
Creates(o) == order_seq' # order_seq /\ o = market_order'[order_seq']

\* the step is the transaction of an update of client p that answers 200
Updates(p) ==
    /\ request[p].pc = "update"
    /\ request'[p].pc = "idle"
    /\ response'[p].status = 200

\* the step takes exactly n of res from user_id, who has it, and changes no
\* other row of inventory_item
TakesExactly(user_id, res, n) ==
    /\ Covers(inventory, user_id, res, n)
    /\ HasRow(inventory', user_id, res)
    /\ DOMAIN inventory' = DOMAIN inventory
    /\ \A k \in DOMAIN inventory :
          inventory'[k] = IF k = <<user_id, res>> THEN inventory[k] - n ELSE inventory[k]

\* a created order has taken exactly total_price MONEY (BUY) or amount of the
\* resource (SELL) from its owner
CreateTakesReservation ==
    \A o \in {market_order'[k] : k \in DOMAIN market_order' \ DOMAIN market_order} :
        Creates(o) =>
            IF o.is_buy_order
            THEN TakesExactly(o.user_id, "MONEY", o.total_price)
            ELSE TakesExactly(o.user_id, o.resource_type, o.amount)

\* an update that raises the total_price of a BUY order takes exactly the
\* increase in MONEY
RaisedPriceTakesIncrease ==
    \A p \in Clients :
        Updates(p) =>
            LET old == market_order[request[p].order_id]
                new == market_order'[request[p].order_id]
            IN  (old.is_buy_order /\ new.total_price > old.total_price)
                    => TakesExactly(old.user_id, "MONEY", new.total_price - old.total_price)

\* an update that raises the amount of a SELL order takes exactly the increase
\* of the resource; with same_resource, only of an update that keeps the
\* resource type
RaisedAmountTakesIncrease(same_resource) ==
    \A p \in Clients :
        Updates(p) =>
            LET old == market_order[request[p].order_id]
                new == market_order'[request[p].order_id]
            IN  (/\ ~old.is_buy_order
                 /\ new.amount > old.amount
                 /\ same_resource => new.resource_type = old.resource_type)
                    => TakesExactly(old.user_id, new.resource_type,
                                    new.amount - old.amount)

\* a request answered without an order created, updated, closed or deleted
\* leaves inventory_item alone; and an update whose increase the owner does not
\* cover is answered 400 and changes neither inventory_item nor market_order
UncoveredRejected ==
    /\ (sent' # sent /\ order_seq' = order_seq /\ request' = request)
           => (inventory' = inventory /\ market_order' = market_order)
    /\ \A p \in Clients :
          (request[p].pc = "update" /\ request'[p].pc = "idle") =>
              LET rq  == request[p]
                  res == IF rq.existing.is_buy_order THEN "MONEY"
                         ELSE NewResource(rq.existing, rq.data)
                  inc == IF rq.existing.is_buy_order
                         THEN NewPrice(rq.existing, rq.data) - rq.existing.total_price
                         ELSE NewAmount(rq.existing, rq.data) - rq.existing.amount
              IN  (inc > 0 /\ ~Covers(inventory, rq.user_id, res, inc))
                      => /\ response'[p].status = 400
                         /\ inventory' = inventory
                         /\ market_order' = market_order

\* C23 as stated: creating a BUY order takes exactly total_price MONEY from the
\* owner and creating a SELL order exactly amount of the resource; an update
\* that raises a BUY order's total_price or a SELL order's amount takes exactly
\* the increase; a request the inventory does not cover is rejected and changes
\* neither the inventory nor any order.
C23_ReservationsExact ==
    [][/\ CreateTakesReservation
       /\ RaisedPriceTakesIncrease
       /\ RaisedAmountTakesIncrease(FALSE)
       /\ UncoveredRejected]_vars

\* C23 amended: the same, the increase of a SELL order's amount being taken
\* exactly when the update keeps the order's resource type.
C23_ReservationsExactSameResource ==
    [][/\ CreateTakesReservation
       /\ RaisedPriceTakesIncrease
       /\ RaisedAmountTakesIncrease(TRUE)
       /\ UncoveredRejected]_vars

\* a BUY order was created at total_price 1 and raised to 2 by an update, and
\* its owner has 2 MONEY less than at the start
C23_Witness ==
    /\ sent = 2
    /\ order_seq = 1
    /\ response[1].status = 200
    /\ 1 \in DOMAIN market_order
    /\ market_order[1].is_buy_order
    /\ market_order[1].total_price = 2
    /\ market_order[1].is_open
    /\ inventory[<<market_order[1].user_id, "MONEY">>]
           = start_inventory[<<market_order[1].user_id, "MONEY">>] - 2

\* the step is the transaction of a fill of client p that answers 200
Fills(p) ==
    /\ request[p].pc = "fill"
    /\ request'[p].pc = "idle"
    /\ response'[p].status = 200

\* the quantity user_id holds of res: 0 without a row
QuantityOf(inv, user_id, res) ==
    IF HasRow(inv, user_id, res) THEN inv[<<user_id, res>>] ELSE 0

\* what user_id gains of res when filler fills the order o: the buying side
\* gains the amount of the resource, the selling side the total_price MONEY;
\* the filler of a BUY order gives the resource and the filler of a SELL order
\* the MONEY (the owner of the order gave his share when it was created)
FillGain(o, filler, user_id, res) ==
    LET buyer  == IF o.is_buy_order THEN o.user_id ELSE filler
        seller == IF o.is_buy_order THEN filler ELSE o.user_id
    IN  (IF user_id = buyer /\ res = o.resource_type THEN o.amount ELSE 0)
        + (IF user_id = seller /\ res = "MONEY" THEN o.total_price ELSE 0)
        - (IF o.is_buy_order /\ user_id = filler /\ res = o.resource_type
           THEN o.amount ELSE 0)
        - (IF ~o.is_buy_order /\ user_id = filler /\ res = "MONEY"
           THEN o.total_price ELSE 0)

\* C24: a fill that succeeds finds the order open, moves its amount of the
\* resource to the buying side and its total_price MONEY to the selling side
\* and leaves the order closed; a fill request for a closed order never
\* reaches the transaction, and its answer, 400 "Order is not open", comes with
\* no change of inventory_item or market_order.
C24_FillOnce ==
    /\ [](\A p \in Clients :
             request[p].pc = "fill" => market_order[request[p].order_id].is_open)
    /\ [][/\ \A p \in Clients :
                Fills(p) =>
                    LET o == market_order[request[p].order_id]
                    IN  /\ o.is_open
                        /\ ~market_order'[request[p].order_id].is_open
                        /\ \A user_id \in Users, res \in Materials \cup {"MONEY"} :
                              QuantityOf(inventory', user_id, res)
                                  = QuantityOf(inventory, user_id, res)
                                    + FillGain(o, request[p].user_id, user_id, res)
          /\ \A p \in Clients :
                (sent' # sent /\ response'[p].detail = "Order is not open")
                    => /\ response'[p].status = 400
                       /\ inventory' = inventory
                       /\ market_order' = market_order]_vars

\* an order was created and filled, and a second fill request was answered
\* 400 "Order is not open"
C24_Witness ==
    /\ sent = 3
    /\ order_seq = 1
    /\ 1 \in DOMAIN market_order
    /\ ~market_order[1].is_open
    /\ response[1] = [status |-> 400, detail |-> "Order is not open"]
    /\ inventory # start_inventory

\* the step is the transaction of a delete of client p that answers 204
Deletes(p) ==
    /\ request[p].pc = "delete"
    /\ request'[p].pc = "idle"
    /\ response'[p].status = 204

\* what the owner of the order o is given back of res when o is deleted
RefundOf(o, user_id, res) ==
    IF user_id # o.user_id THEN 0
    ELSE IF o.is_buy_order THEN (IF res = "MONEY" THEN o.total_price ELSE 0)
    ELSE IF res = o.resource_type THEN o.amount ELSE 0

\* C25: the delete of an open order gives its owner back the order's current
\* total_price in MONEY (BUY) or its current amount of the resource (SELL) and
\* nothing else, and the order is gone; and whenever every order that was
\* created has been deleted, inventory_item is what it was at the start.
C25_DeleteRestores ==
    /\ []((DOMAIN market_order = {} /\ \A p \in Clients : request[p].pc = "idle")
              => inventory = start_inventory)
    /\ [][\A p \in Clients :
             Deletes(p) =>
                 LET o == market_order[request[p].order_id]
                 IN  /\ o.is_open
                     /\ request[p].order_id \notin DOMAIN market_order'
                     /\ \A user_id \in Users, res \in Materials \cup {"MONEY"} :
                           QuantityOf(inventory', user_id, res)
                               = QuantityOf(inventory, user_id, res)
                                 + RefundOf(o, user_id, res)]_vars

\* in a run of three requests an order was created and deleted
C25_Witness ==
    /\ sent = 3
    /\ order_seq = 1
    /\ DOMAIN market_order = {}
    /\ response[1].status = 204
    /\ inventory = start_inventory

RECURSIVE SumOver(_, _)
\* the sum of f over the set S
SumOver(f, S) ==
    IF S = {} THEN 0
    ELSE LET x == CHOOSE y \in S : TRUE
         IN  f[x] + SumOver(f, S \ {x})

\* all of res the users hold
Held(inv, res) ==
    SumOver([user_id \in Users |-> QuantityOf(inv, user_id, res)], Users)

\* the total_price of the open BUY orders
ReservedMoney(orders) ==
    LET open == {k \in DOMAIN orders : orders[k].is_open /\ orders[k].is_buy_order}
    IN  SumOver([k \in open |-> orders[k].total_price], open)

\* the amount of the open SELL orders of the material
ReservedMaterial(orders, res) ==
    LET open == {k \in DOMAIN orders :
                    /\ orders[k].is_open
                    /\ ~orders[k].is_buy_order
                    /\ orders[k].resource_type = res}
    IN  SumOver([k \in open |-> orders[k].amount], open)

\* no request is being handled
Quiet == \A p \in Clients : request[p].pc = "idle"

\* C27: between requests run one at a time, the MONEY the users hold plus the
\* total_price of the open BUY orders is what the users held at the start, and
\* so is, for each material, what the users hold plus the amount of the open
\* SELL orders of that material.
C27_Conserved ==
    Quiet =>
        /\ Held(inventory, "MONEY") + ReservedMoney(market_order)
               = Held(start_inventory, "MONEY")
        /\ \A res \in Materials :
              Held(inventory, res) + ReservedMaterial(market_order, res)
                  = Held(start_inventory, res)

\* three requests have changed the tables: an order is open, another was
\* filled, and the users hold less MONEY than at the start
C27_Witness ==
    /\ Quiet
    /\ sent = 3
    /\ \E k \in DOMAIN market_order : market_order[k].is_open
    /\ \E k \in DOMAIN market_order : ~market_order[k].is_open
    /\ Held(inventory, "MONEY") < Held(start_inventory, "MONEY")

(***************************************************************************)
(* Market: requests that overlap                                           *)
(***************************************************************************)
InitRace ==
    /\ PipelineIdle
    /\ inventory \in Inventories
    /\ start_inventory = inventory
    /\ market_order = <<>>
    /\ order_seq = 0
    /\ request = [p \in Clients |-> Idle]
    /\ response = [p \in Clients |-> NoResponse]
    /\ serial = FALSE
    /\ sent = 0
    /\ building = <<>>
    /\ now = 0

\* the market endpoints, a client sending its request while the request of
\* the other is being handled
SpecRace == InitRace /\ [][NextMarket]_vars

\* C26: of the fill requests for one order at most one commits its transfers:
\* the transaction of a fill changes inventory_item only when the order is
\* still open, that is, when no fill has closed it.
C26_TransferOnce ==
    [][\A p \in Clients :
          (/\ request[p].pc = "fill"
           /\ request'[p].pc = "idle"
           /\ request[p].order_id \in DOMAIN market_order
           /\ ~market_order[request[p].order_id].is_open)
              => inventory' = inventory]_vars


(***************************************************************************)
(* Lakes narrower than the spacing of the tiles                            *)
(***************************************************************************)
\* lakes narrower than the distance of two tile centres of a row, on the
\* column of tiles through the middle of the disk: their candidates are tiles
\* of every second row only
NarrowLakes ==
    { Polygon(<<Rect(10, 50)>>),
      Polygon(<<Rect(10, 30)>>),
      Polygon(<<<<<<-10, -50>>, <<10, -50>>, <<0, 50>>>>>>),
      Polygon(<<Rect(10, 50), Rect(5, 5)>>) }

\* snap_lakes_to_hexes is called with the disk of two rings map_to_hexagons
\* returns and one lake
InitNarrow ==
    /\ RepairIdle
    /\ grid = <<>>
    /\ req = <<>>
    /\ rings = 0
    /\ hex_biomes = <<>>
    /\ tpc = "idle"
    /\ rivers = <<>>
    /\ water_hexes = {}
    /\ fi = 0
    /\ rpc = "idle"
    /\ hexagons = ListOf(GridDisk(SnapCenter, 2))
    /\ env = Envelope(hexagons)
    /\ num_points = 0
    /\ si = 0
    /\ sj = 0
    /\ prev_hex = None
    /\ lakes \in {<<l>> : l \in NarrowLakes \cup PassedLakes}
    /\ candidates = <<>>
    /\ lake_hexes = {}
    /\ li = 1
    /\ ri = 0
    /\ lpc = "lake"
    /\ h3_fail = NoFail
    /\ NearestIdle
    /\ ServerIdle

\* one call of snap_lakes_to_hexes on a narrow lake
SpecNarrow == InitNarrow /\ [][NextLake]_vars

\* C28: every key added to the result while a lake is processed is one of
\* that lake's candidates, the tiles whose centre lies in the bounding box of
\* the lake's vertices: neither the trace of a ring, its bridges included,
\* nor the fill adds a tile outside the candidates.
C28_WithinCandidates ==
    [][(lake_hexes' \ lake_hexes) \subseteq Range(candidates)]_vars


(***************************************************************************)
(* The LineSnapper on the tile sets the program builds                     *)
(***************************************************************************)
\* the tile sets map_to_hexagons returns: the keys of hex_biomes are a disk
\* h3.grid_disk(center_hex, rings)
DiskTileSets == {GridDisk(SnapCenter, 1), GridDisk(SnapCenter, 2)}

\* snap_rivers_to_hexes(rivers, hex_biomes.keys(), lat_corr): one river over
\* a disk of tiles
InitRiverDisk ==
    /\ RepairIdle
    /\ LakeIdle
    /\ grid = <<>>
    /\ req = <<>>
    /\ rings = 0
    /\ hex_biomes = <<>>
    /\ tpc = "idle"
    /\ hexagons \in {ListOf(S) : S \in DiskTileSets}
    /\ rivers \in {<<[coordinates |-> l]>> : l \in Lines}
    /\ env = Envelope(hexagons)
    /\ water_hexes = {}
    /\ num_points = 0
    /\ fi = 1
    /\ si = 1
    /\ sj = 0
    /\ prev_hex = None
    /\ rpc = "segment"

\* one call of snap_rivers_to_hexes by the program
SpecRiverDisk == InitRiverDisk /\ [][NextRiver]_vars


MaxClaims == 3

\* the clock stops at this many seconds
MaxTime == 900

\* building["level"]
Levels == {1, 2}

\* the h3_index of the one building and one no building has
H3Indexes == {"b1", "b2"}

\* the seconds that pass between two looks at the clock
Elapses == {150, 240}

\* calculate_resource_production(level, seconds)[0]: the whole resources
\* produced in the seconds at 10 * level resources per hour
ResourcesProduced(level, seconds) == (seconds * 10 * level) \div 3600

\* calculate_resource_production(level, seconds)[1]: the seconds it took to
\* produce them
SecondsSpent(level, seconds) ==
    (ResourcesProduced(level, seconds) * 3600) \div (10 * level)

\* new_last_claim = last_claim + timedelta(seconds=time_delta.total_seconds())
NewLastClaim(last_claim, time_delta, seconds_spent) == last_claim + time_delta

\* time passes
Tick ==
    /\ \E e \in Elapses :
          /\ now + e <= MaxTime
          /\ now' = now + e
    /\ UNCHANGED <<marketVars, building>>
    /\ UNCHANGED notServer

\* claim_building_resources: POST /buildings/{h3_index}/claim by user_id
ClaimBuildingResources ==
    /\ sent < MaxClaims
    /\ sent' = sent + 1
    /\ \E h3_index \in H3Indexes, user_id \in Users :
          IF h3_index \notin DOMAIN building
          THEN /\ response' = [status |-> 404, detail |-> "Building not found"]
               /\ UNCHANGED <<inventory, building>>
          ELSE IF building[h3_index].user_id # user_id
          THEN /\ response' = [status |-> 403, detail |-> "You don't own this building"]
               /\ UNCHANGED <<inventory, building>>
          ELSE LET b == building[h3_index]
                   last_claim == b.last_claim_at
                   time_delta == now - last_claim
                   resources_produced == ResourcesProduced(b.level, time_delta)
                   seconds_spent == SecondsSpent(b.level, time_delta)
               IN  /\ inventory' = Upsert(inventory, user_id, b.resource_type,
                                          resources_produced)
                   /\ building' = [building EXCEPT ![h3_index].last_claim_at =
                                       NewLastClaim(last_claim, time_delta, seconds_spent)]
                   /\ response' =
                          [status |-> 200, detail |-> "",
                           resources_claimed |-> resources_produced,
                           resource_type |-> b.resource_type,
                           new_inventory_total |-> inventory'[<<user_id, b.resource_type>>],
                           seconds_elapsed |-> seconds_spent]
    /\ UNCHANGED <<market_order, order_seq, request, serial, start_inventory, now>>
    /\ UNCHANGED notServer

\* the building b1 of u1 has just been claimed from, and u1 holds some WOOD or
\* has no row of it yet
InitBuildings ==
    /\ PipelineIdle
    /\ inventory \in {<<>>, (<<"u1", "WOOD">> :> 2)}
    /\ start_inventory = inventory
    /\ market_order = <<>>
    /\ order_seq = 0
    /\ request = <<>>
    /\ response = NoResponse
    /\ serial = TRUE
    /\ sent = 0
    /\ building \in {("b1" :> [user_id |-> "u1", level |-> l, resource_type |-> "WOOD",
                               last_claim_at |-> 0]) : l \in Levels}
    /\ now = 0

NextBuildings == Tick \/ ClaimBuildingResources

\* the claims of one building as time passes
SpecBuildings == InitBuildings /\ [][NextBuildings]_vars

\* the owner's claim of b1 is handled
ClaimGranted == sent' = sent + 1 /\ response'.status = 200

\* C30: a claim moves last_claim_at on by the seconds spent on the whole
\* resources it grants and no further, so that the time left over counts for
\* the next claim: after every claim the owner has been granted in total what
\* one claim over all the time since the first last_claim_at would grant.
C30_RemainderPreserved ==
    [][ClaimGranted =>
          LET b == building["b1"]
          IN  /\ building'["b1"].last_claim_at =
                     b.last_claim_at + SecondsSpent(b.level, now - b.last_claim_at)
              /\ QuantityOf(inventory', "u1", "WOOD")
                     - QuantityOf(start_inventory, "u1", "WOOD")
                     = ResourcesProduced(b.level, now)
      ]_vars

====
